---------------------------- MODULE Spec2Model ----------------------------
(***************************************************************************)
(* Model of the memflow desktop-activity engine:                           *)
(*   - the OCR worker and its retry queue  (src-tauri/src/ocr_worker.rs,   *)
(*     src-tauri/src/db.rs)                                                *)
(*   - the agent execution engine          (src-tauri/src/agent/mod.rs)    *)
(*   - the capture worker's gates and dedup pipeline, and its recording    *)
(*     loop (src-tauri/src/recorder.rs, src-tauri/src/win_event.rs)        *)
(*   - activity search and hybrid search   (src-tauri/src/db.rs,           *)
(*     src-tauri/src/ai/rag.rs, crates/memflow-core)                       *)
(*   - the agent's proposals               (src-tauri/src/agent/mod.rs)    *)
(*   - screenshot files and retention      (src-tauri/src/recorder.rs,     *)
(*     src-tauri/src/db.rs)                                                *)
(*   - the text path of a capture          (src-tauri/src/recorder.rs)     *)
(*   - store initialization and recovery   (src-tauri/src/db.rs)           *)
(*   - the writers of CONFIG               (src-tauri/src/recorder.rs,     *)
(*     src-tauri/src/app_config.rs, src-tauri/src/commands.rs)             *)
(*   - the retention scheduler             (src-tauri/src/scheduler.rs)    *)
(*   - the skip counters                   (crates/memflow-core/src/db.rs, *)
(*     src-tauri/src/db.rs)                                                *)
(* Each subsystem has its own specification (SpecOcr, SpecAgent,           *)
(* SpecCapture, SpecLoop, SpecSearch, SpecRag, SpecPropose, SpecStore,     *)
(* SpecIngest, SpecRecovery, SpecPrivacy, SpecSched, SpecStats); a         *)
(* subsystem's actions leave the other subsystems' state unchanged.        *)
(* SpecPermits, SpecBacklog and SpecDrain run the OCR worker over wider    *)
(* queues; SpecOcrLive is SpecOcr with the worker's scheduling.            *)
(***************************************************************************)
EXTENDS Integers, Sequences, FiniteSets, TLC

(***************************************************************************)
(* Bounds of the model                                                     *)
(***************************************************************************)
\* number of OCR queue entries (activities sent to OCR)
MaxEntries == 2
\* retry_count is unbounded in the code; attempts stop being generated here
MaxRetryCount == 4
\* number of agent_executions rows
MaxExecutions == 1
\* number of steps of a proposal
MaxSteps == 2
\* number of activity rows the capture worker inserts
MaxActivities == 1
\* number of skipped-stat increments the capture worker issues
MaxSkips == 1
\* window handles the foreground window takes (0 stands for no window)
MaxHwnd == 2
\* rows of activity_logs the searches run over, and rows the captures insert
\* before a retention run
MaxRows == 2
\* the time followed by the clock, in polling periods of 100 ms
MaxClock == 16
\* recording loops of earlier start() calls followed beside the latest one
MaxOlderLoops == 1
\* queue rows waiting when the worker starts, where the work of a wake-up is counted
MaxWaiting == 3

\* the callers of force_recovery that can be alive together
MaxCallers == 2

\* the try_connect_and_migrate calls followed within one init_db call
MaxAttempts == 4

\* run_cleanup calls followed
MaxRuns == 4

\* the longest a run_cleanup call takes, in seconds
MaxCleanupSecs == 3

\* increment_skipped_stat calls followed for each reason
MaxIncrements == 2

(***************************************************************************)
(* Program constants                                                       *)
(***************************************************************************)
\* ocr_worker.rs:227  `if task.retry_count >= 3`
DeadLetterThreshold == 3
\* ocr_worker.rs:60   Semaphore::new(2)
OcrConcurrency == 2
\* ocr_worker.rs:61   fetch_limit = 10
FetchLimit == 10
\* recorder.rs:135    the 500 ms debounce, counted in the event loop's 100 ms
\*                    polling periods (recorder.rs:128)
DebounceTicks == 5
\* db.rs:69          `if retry_count >= 3` in init_db
InitMaxRetries == 3
\* scheduler.rs:9     CLEANUP_INTERVAL_SECS = 24 * 60 * 60
CLEANUP_INTERVAL_SECS == 86400
\* scheduler.rs:17    sleep(Duration::from_secs(30))
BootDelaySecs == 30
\* commands.rs:86     default_recording_interval, in ms
DefaultRecordingInterval == 5000
\* ocr_queue.retry_count of a freshly inserted row (schema default)
InitialRetryCount == 0
\* recorder.rs:631  const DEDUP_HAMMING_THRESHOLD: u32 = 5
DEDUP_HAMMING_THRESHOLD == 5
\* recorder.rs:618  the perceptual hash is a u64
PhashBits == 64
\* recorder.rs:295  format!("{:016x}", current_hash)
PhashHexDigits == 16
\* recorder.rs:69-70  adjust_heartbeat: (min, max) = (10, 60), step = 5
HeartbeatMin == 10
HeartbeatMax == 60
HeartbeatStep == 5
\* recorder.rs:25   HEARTBEAT_SECS: AtomicU64::new(60)
HeartbeatInitial == 60

VARIABLES
    \* ---- OCR queue and worker ----
    ocr_queue,      \* entry id -> [status, retry_count, fresh]; fresh: the row is
                    \* 'processing' and its updated_at is within the last 300 s
                    \* (updated_at is read for 'processing' rows only)
    ocr_text,       \* activity (= entry id) -> TRUE when activity_logs.ocr_text was stored by OCR
    worker_pc,      \* "waiting" (select! on tick/notify) | "draining" (inner loop)
    join_set,       \* entry id -> [pc, retry_count]: the tasks of the current batch
    ocr_events,     \* set of activity ids for which "ocr-updated" was emitted by the worker
    ocr_trace,      \* history: entry id -> sequence of <<status, retry_count>> written to the row
    ocr_clean,      \* history: entry id -> TRUE while every attempt on the entry ended in an
                    \* OCR error and every queue update of the entry was applied
    wake_processed  \* history: <<n>>, n the number of fetched entries a task has
                    \* marked 'processing' and taken to OCR since the worker last
                    \* woke, FetchLimit + 1 standing for anything above FetchLimit;
                    \* <<>> where it is not followed

ocrVars == <<ocr_queue, ocr_text, worker_pc, join_set, ocr_events, ocr_trace, ocr_clean,
             wake_processed>>

VARIABLES
    \* ---- agent execution engine ----
    agent_executions,   \* execution id -> row [status, finished_at, metadata]
    EXECUTION_CANCEL_FLAGS,  \* execution id -> "absent" | "false" | "true"
    bg,                 \* execution id -> the spawned background task
    last_call,          \* history: the command performed by the latest step and its result
    cancel_info,        \* history: execution id -> what the first effective cancel saw
    steps_started,      \* history: execution id -> number of execute_step calls begun
    step_log            \* history: execution id -> the execute_step calls of the
                        \* background task in progress that have returned, in order,
                        \* each [index, ok]: the position of the step in the list and
                        \* whether it returned Ok

agentVars == <<agent_executions, EXECUTION_CANCEL_FLAGS, bg, last_call, cancel_info,
               steps_started, step_log>>

VARIABLES
    \* ---- capture worker ----
    config,             \* CONFIG, an Option<AppConfig>: <<>> (None) or <<c>> with c =
                        \* [recording_interval, privacy_mode_enabled,
                        \* privacy_mode_until]; until is <<>> (None), <<"future">> or
                        \* <<"past">> relative to now
    LAST_PHASH,         \* Option<String>: <<>> or <<hex>>, hex a sequence of 16 digits 0..15
    LAST_TEXT_HASH,     \* Option<u64>: <<>> or <<hash>>
    HEARTBEAT_SECS,     \* the heartbeat interval in seconds
    activity_count,     \* number of rows of activity_logs
    skipped_stats,      \* reason -> number of increment_skipped_stat(reason) calls issued
    last_capture,       \* history: outcome and frame of the capture_and_save run just made
    last_saved_hash     \* history: Option<u64>, the hash of the frame saved last

captureVars == <<config, LAST_PHASH, LAST_TEXT_HASH, HEARTBEAT_SECS, activity_count,
                 skipped_stats, last_capture, last_saved_hash>>

VARIABLES
    \* ---- recording loop ----
    RECORDING,          \* the recording flag
    loop_pc,            \* the recording_loop task spawned by the latest start():
                        \* "none" (not spawned, or returned),
                        \* "spawned" (before its first line), "select" (waiting in select!)
    older_loops,        \* number of recording_loop tasks spawned by earlier start()
                        \* calls that have not returned
    loop_interval,      \* Option<u64>: config.recording_interval as recording_loop
                        \* loaded it, <<>> while no loop has loaded a config
    elapsed,            \* last_capture_time.elapsed() in polling periods, DebounceTicks + 1
                        \* standing for anything longer than the debounce
    event_rx,           \* the events in the channel, each the hwnd it carries
    foreground,         \* what GetForegroundWindow() returns
    poller,             \* the event loop thread: [pc, last_hwnd, polled]; polled says
                        \* that it has looked at the foreground in this polling period
    burst,              \* history: the events received since the first one of the
                        \* current 500 ms window, and the capture attempts made for them
    last_wake           \* history: the last wake of the loop: its cause, whether
                        \* capture_and_save was called, the flag at that moment

loopVars == <<RECORDING, loop_pc, older_loops, loop_interval, elapsed, event_rx,
              foreground, poller, burst, last_wake>>

\* what the loop's timing and event handling work on
eventVars == <<elapsed, event_rx, foreground, poller, burst, last_wake>>

VARIABLES
    \* ---- search ----
    activity_logs,      \* the rows of activity_logs in id order, each
                        \* [timestamp, app_name, ocr_text]; ocr_text is <<>> (NULL) or
                        \* <<text>>, text the sequence of its words
    search_call,        \* Option: the memflow-core search that has run its COUNT query
                        \* and not yet its SELECT: [args, total]
    search_result,      \* history: what the latest search returned: [impl, ok, total,
                        \* items], items the number of rows in the page, and matching,
                        \* the number of rows under its filters when it returned
    rag_result          \* history: the latest hybrid search: [limit, found, now,
                        \* results], found the number of activities it had scores
                        \* for, and per result its id, its fused score before the
                        \* decay, the timestamp the decay was given and its score

searchVars == <<activity_logs, search_call, search_result, rag_result>>

VARIABLES
    \* ---- agent propose ----
    propose_result      \* history: the latest propose_automation call: [ret, llm, rows,
                        \* hours, proposals], llm what the analysis does when called,
                        \* rows the number of activity rows in the time window, hours
                        \* the time_window_hours parameter, proposals what it returned

VARIABLES
    \* ---- screenshots and retention ----
    clock,              \* the wall clock in polling periods of 100 ms
    activity_images,    \* the rows of activity_logs in id order, each
                        \* [timestamp, image_path]
    screenshots,        \* the file names in the screenshots directory
    gc_result           \* history: the latest cleanup_old_activities call:
                        \* [ret, dry_run, cutoff_ts]

VARIABLES
    \* ---- text path of a capture ----
    ingest,             \* activity id -> what capture_and_save has done for it:
                        \* [inserted, uia, ocr_text, ocr_enabled, enqueue]; uia is the
                        \* extractor's text (Option), ocr_text the text stored in the
                        \* row (Option), ocr_enabled the option as the run read it
                        \* (Option), enqueue the spawned enqueue task: "none",
                        \* "spawned", "done" or "failed"
    ui_events,          \* the events emitted by the recorder: <<name, activity id>>
    ocr_notified        \* the activities for which notify_new_task() was called

ingestVars == <<ingest, ui_events, ocr_notified>>

VARIABLES
    \* ---- store initialization and recovery ----
    DB_POOL,            \* "none" (None), "healthy" or "corrupt": Some(pool), over a
                        \* database that works or one whose writes fail with a
                        \* corruption-class error
    RECOVERY_LOCK,      \* the task that holds the recovery mutex, 0 when it is free
    rec                 \* task -> [pc, retry_count, attempts, has_reset, waited,
                        \* found, ret]: where the task is in init_db / force_recovery,
                        \* the retry_count of its init_db loop, and histories: the
                        \* try_connect_and_migrate calls made so far by the init_db
                        \* call in progress, whether the task has removed the database
                        \* files, whether the lock was held when the task asked for
                        \* it, the pool as the health check found it, what the call
                        \* returned

recoveryVars == <<DB_POOL, RECOVERY_LOCK, rec>>

VARIABLES
    \* ---- configuration writers ----
    app_config,         \* CONFIG while the privacy gate is followed step by step: an
                        \* AppConfig
    gate,               \* the capture worker in the privacy gate: [pc, local], pc
                        \* "idle" or "write" (get_config has returned an expired
                        \* privacy mode, update_config is still to be called), local
                        \* the copy the worker is about to write
    user_cmd,           \* the set_privacy_mode command in flight: [pc, local, enabled,
                        \* until], pc "idle" or "write" (get_config has returned)
    overlap             \* history: <<>>, or <<[fields, values]>>: the options and the
                        \* values of the latest user write that was stored between the
                        \* worker's get_config and the worker's update_config

privacyVars == <<app_config, gate, user_cmd, overlap>>

VARIABLES
    \* ---- retention scheduler ----
    sched,              \* the scheduler task: [pc, now, next_tick, ticker]; now the
                        \* time since spawn_retention_scheduler in seconds, next_tick
                        \* the deadline of the ticker's next tick, ticker whether the
                        \* interval has been created
    gc_runs             \* history: the run_cleanup calls in order, each [at, outcome]:
                        \* the time of the call and how it ended

schedVars == <<sched, gc_runs>>

VARIABLES
    \* ---- skip counters ----
    SKIPPED_STATS,      \* the in-memory buffer: reason -> count (0: no entry)
    recording_stats,    \* the table: reason -> count persisted (today's rows)
    flusher,            \* the flush task: [pc, drained, failed]; pc "none" (not
                        \* spawned), "sleep" or "write" (the buffer has been taken),
                        \* drained the counts taken out of the buffer (reason ->
                        \* count), failed (history) whether a flush has failed
    increments_done     \* history: reason -> increment_skipped_stat calls that
                        \* have returned Ok

statsVars == <<SKIPPED_STATS, recording_stats, flusher, increments_done>>

hostVars == <<recoveryVars, privacyVars, schedVars, statsVars>>

nonRecoveryVars == <<privacyVars, schedVars, statsVars>>

nonPrivacyVars == <<recoveryVars, schedVars, statsVars>>

nonSchedVars == <<recoveryVars, privacyVars, statsVars>>

nonStatsVars == <<recoveryVars, privacyVars, schedVars>>

storeVars == <<propose_result, clock, activity_images, screenshots, gc_result, ingestVars,
               hostVars>>

vars == <<ocrVars, agentVars, captureVars, loopVars, searchVars, storeVars>>

nonOcrVars == <<agentVars, captureVars, loopVars, searchVars, storeVars>>

nonAgentVars == <<ocrVars, captureVars, loopVars, searchVars, storeVars>>

nonCaptureVars == <<ocrVars, agentVars, loopVars, searchVars, storeVars>>

nonSearchVars == <<ocrVars, agentVars, captureVars, loopVars, storeVars>>

nonRecorderVars == <<ocrVars, agentVars, searchVars, storeVars>>

nonHostVars == <<ocrVars, agentVars, captureVars, loopVars, searchVars, propose_result,
                 clock, activity_images, screenshots, gc_result, ingestVars>>

(***************************************************************************)
(* OCR queue: src-tauri/src/db.rs                                          *)
(***************************************************************************)
\* the rows of ocr_queue, in created_at order
EntryIds == DOMAIN ocr_queue

AbsentEntry == [status |-> "absent", retry_count |-> InitialRetryCount, fresh |-> FALSE]

Present(q, id) == q[id].status # "absent"

\* INSERT OR IGNORE INTO ocr_queue (activity_id, status) VALUES (?, 'pending')
EnqueueOcrTaskRow(q, id) ==
    IF Present(q, id) THEN q
    ELSE [q EXCEPT ![id] = [status |-> "pending",
                            retry_count |-> InitialRetryCount,
                            fresh |-> FALSE]]

\* the mutated form of Eligible: the age of a 'processing' row is not looked at
EligibleWhateverTheAge(q, id) ==
    q[id].status \in {"pending", "processing"}

\* WHERE status = 'pending' OR (status = 'processing' AND updated_at < now - 300)
Eligible(q, id) ==
    \/ q[id].status = "pending"
    \/ (q[id].status = "processing" /\ ~q[id].fresh)

\* the mutated form of GetPendingOcrTasks: ORDER BY created_at DESC
GetPendingOcrTasksNewestFirst(q, limit) ==
    LET elig == {id \in DOMAIN q : Eligible(q, id)}
    IN  {id \in elig : Cardinality({j \in elig : j > id}) < limit}

\* ORDER BY created_at ASC LIMIT ?   (entries are created in id order)
GetPendingOcrTasks(q, limit) ==
    LET elig == {id \in EntryIds : Eligible(q, id)}
    IN  {id \in elig : Cardinality({j \in elig : j < id}) < limit}

\* the mutated form of update_ocr_queue_status: retry_count never incremented
UpdateOcrQueueStatusNoIncrement(q, id, status) ==
    [q EXCEPT ![id] = [status |-> status,
                       retry_count |-> q[id].retry_count,
                       fresh |-> (status = "processing")]]

\* UPDATE ocr_queue SET status = ?, updated_at = now [, retry_count = retry_count + 1] WHERE id = ?
UpdateOcrQueueStatus(q, id, status) ==
    [q EXCEPT ![id] = [status |-> status,
                       retry_count |-> IF status = "pending"
                                       THEN q[id].retry_count + 1
                                       ELSE q[id].retry_count,
                       fresh |-> (status = "processing")]]

(***************************************************************************)
(* OCR worker: src-tauri/src/ocr_worker.rs                                 *)
(***************************************************************************)
NoTask == [pc |-> "none", retry_count |-> 0]

\* the mutated form of PermitsInUse: a permit is given back once the row is marked
PermitsInUseNotCounted ==
    Cardinality({id \in EntryIds : join_set[id].pc = "running" /\
                                   ocr_queue[id].status # "processing"})

\* Semaphore::new(2): the permits held by the tasks between acquire() and their return
PermitsInUse == Cardinality({id \in EntryIds : join_set[id].pc = "running"})

\* the mutated form of BatchDone: the next fetch does not wait for the tasks
BatchNotAwaited == TRUE

\* while join_set.join_next().await.is_some() {}: every task of the batch has returned
BatchDone == \A id \in EntryIds : join_set[id].pc = "none"

\* the mutated form of OcrErrorStatus: the threshold test is off by one
OcrErrorStatusOffByOne(retry_count) ==
    IF retry_count > DeadLetterThreshold THEN "failed" ELSE "pending"

\* the status the Err(e) arm of the match on ocr_result asks for
OcrErrorStatus(retry_count) ==
    IF retry_count >= DeadLetterThreshold THEN "failed" ELSE "pending"

\* history of the (status, retry_count) values written to the row of a clean entry
Record(tr, cl, q, id) ==
    IF cl[id] THEN [tr EXCEPT ![id] = Append(@, <<q[id].status, q[id].retry_count>>)]
    ELSE [tr EXCEPT ![id] = <<>>]

\* the worker before its first wake, over the queue q, with the histories of the
\* entries tracked or not, and the entries processed in a wake-up counted or not
WorkerInit(q, tracked, counted) ==
    /\ ocr_queue = q
    /\ ocr_text = [id \in DOMAIN q |-> FALSE]
    /\ worker_pc = "waiting"
    /\ join_set = [id \in DOMAIN q |-> NoTask]
    /\ ocr_events = {}
    /\ ocr_trace = [id \in DOMAIN q |-> <<>>]
    /\ ocr_clean = [id \in DOMAIN q |-> tracked]
    /\ wake_processed = IF counted THEN <<0>> ELSE <<>>

OcrInit == WorkerInit([id \in 1..MaxEntries |-> AbsentEntry], TRUE, FALSE)

\* recorder.rs: tokio::spawn(enqueue_ocr_task(activity_id)) for the next activity
EnqueueOcrTask ==
    \E id \in EntryIds :
        /\ ~Present(ocr_queue, id)
        /\ \A j \in EntryIds : j < id => Present(ocr_queue, j)
        /\ ocr_queue' = EnqueueOcrTaskRow(ocr_queue, id)
        /\ ocr_trace' = Record(ocr_trace, ocr_clean, ocr_queue', id)
        /\ UNCHANGED <<ocr_text, worker_pc, join_set, ocr_events, ocr_clean, wake_processed>>
        /\ UNCHANGED nonOcrVars

\* five minutes pass: every 'processing' row's updated_at is now older than now - 300
TimePasses ==
    /\ \E id \in EntryIds : ocr_queue[id].fresh
    /\ ocr_queue' = [id \in EntryIds |-> [ocr_queue[id] EXCEPT !.fresh = FALSE]]
    /\ UNCHANGED <<ocr_text, worker_pc, join_set, ocr_events, ocr_trace, ocr_clean,
                   wake_processed>>
    /\ UNCHANGED nonOcrVars

\* run_worker: the select! on tick / notify returns, config.ocr_enabled holds
WorkerWake ==
    /\ worker_pc = "waiting"
    /\ worker_pc' = "draining"
    /\ wake_processed' = IF wake_processed = <<>> THEN <<>> ELSE <<0>>
    /\ UNCHANGED <<ocr_queue, ocr_text, join_set, ocr_events, ocr_trace, ocr_clean>>
    /\ UNCHANGED nonOcrVars

\* run_worker: one pass of the inner loop up to the spawn of the batch's tasks
WorkerFetch ==
    /\ worker_pc = "draining"
    /\ BatchDone
    /\ \E fetch_ok \in BOOLEAN :
        LET tasks == IF fetch_ok THEN GetPendingOcrTasks(ocr_queue, FetchLimit) ELSE {}
        IN  IF tasks = {}
            THEN /\ worker_pc' = "waiting"
                 /\ UNCHANGED join_set
            ELSE /\ join_set' = [id \in EntryIds |->
                        IF id \in tasks
                        THEN [pc |-> "spawned", retry_count |-> ocr_queue[id].retry_count]
                        ELSE NoTask]
                 /\ UNCHANGED worker_pc
    /\ UNCHANGED <<ocr_queue, ocr_text, ocr_events, ocr_trace, ocr_clean, wake_processed>>
    /\ UNCHANGED nonOcrVars

\* a spawned task: limiter.acquire(), then update_ocr_queue_status(id, "processing")
TaskStart ==
    \E id \in EntryIds, mark_ok \in BOOLEAN :
        /\ join_set[id].pc = "spawned"
        /\ PermitsInUse < OcrConcurrency
        /\ IF mark_ok
           THEN /\ ocr_queue' = UpdateOcrQueueStatus(ocr_queue, id, "processing")
                /\ join_set' = [join_set EXCEPT ![id].pc = "running"]
                /\ wake_processed' = IF wake_processed = <<>> THEN <<>>
                                     ELSE IF wake_processed[1] < FetchLimit
                                          THEN <<wake_processed[1] + 1>>
                                          ELSE <<FetchLimit + 1>>
                /\ UNCHANGED ocr_clean
           ELSE /\ join_set' = [join_set EXCEPT ![id] = NoTask]
                /\ ocr_clean' = [ocr_clean EXCEPT ![id] = FALSE]
                /\ UNCHANGED <<ocr_queue, wake_processed>>
        /\ ocr_trace' = Record(ocr_trace, ocr_clean', ocr_queue', id)
        /\ UNCHANGED <<ocr_text, worker_pc, ocr_events>>
        /\ UNCHANGED nonOcrVars

\* a running task, OCR returned Ok(text): update_activity_ocr, then the queue row
TaskOcrOk ==
    \E id \in EntryIds, store_ok \in BOOLEAN, status_ok \in BOOLEAN :
        /\ join_set[id].pc = "running"
        /\ (~store_ok => ocr_queue[id].retry_count < MaxRetryCount)
        /\ LET status == IF store_ok THEN "done" ELSE "pending"
           IN  /\ ocr_queue' = IF status_ok
                               THEN UpdateOcrQueueStatus(ocr_queue, id, status)
                               ELSE ocr_queue
               /\ ocr_text' = IF store_ok THEN [ocr_text EXCEPT ![id] = TRUE] ELSE ocr_text
               /\ ocr_events' = IF store_ok THEN ocr_events \cup {id} ELSE ocr_events
               /\ ocr_clean' = [ocr_clean EXCEPT ![id] = FALSE]
        /\ join_set' = [join_set EXCEPT ![id] = NoTask]
        /\ ocr_trace' = Record(ocr_trace, ocr_clean', ocr_queue', id)
        /\ UNCHANGED <<worker_pc, wake_processed>>
        /\ UNCHANGED nonOcrVars

\* a running task, OCR returned Err(e): dead-letter or re-queue by task.retry_count
TaskOcrErr ==
    \E id \in EntryIds, status_ok \in BOOLEAN :
        /\ join_set[id].pc = "running"
        /\ ocr_queue' = IF status_ok
                        THEN UpdateOcrQueueStatus(ocr_queue, id,
                                                  OcrErrorStatus(join_set[id].retry_count))
                        ELSE ocr_queue
        /\ ocr_clean' = IF status_ok THEN ocr_clean ELSE [ocr_clean EXCEPT ![id] = FALSE]
        /\ join_set' = [join_set EXCEPT ![id] = NoTask]
        /\ ocr_trace' = Record(ocr_trace, ocr_clean', ocr_queue', id)
        /\ UNCHANGED <<ocr_text, worker_pc, ocr_events, wake_processed>>
        /\ UNCHANGED nonOcrVars

\* a running task whose input path is not valid UTF-8: marked failed at once
TaskInvalidPath ==
    \E id \in EntryIds, status_ok \in BOOLEAN :
        /\ join_set[id].pc = "running"
        /\ ocr_queue' = IF status_ok
                        THEN UpdateOcrQueueStatus(ocr_queue, id, "failed")
                        ELSE ocr_queue
        /\ ocr_clean' = [ocr_clean EXCEPT ![id] = FALSE]
        /\ join_set' = [join_set EXCEPT ![id] = NoTask]
        /\ ocr_trace' = Record(ocr_trace, ocr_clean', ocr_queue', id)
        /\ UNCHANGED <<ocr_text, worker_pc, ocr_events, wake_processed>>
        /\ UNCHANGED nonOcrVars

OcrNext ==
    \/ EnqueueOcrTask
    \/ TimePasses
    \/ WorkerWake
    \/ WorkerFetch
    \/ TaskStart
    \/ TaskOcrOk
    \/ TaskOcrErr
    \/ TaskInvalidPath


(***************************************************************************)
(* Agent execution engine: src-tauri/src/agent/mod.rs                      *)
(***************************************************************************)
ExecIds == 1..MaxExecutions

RiskLevels == {"low", "medium", "high"}

\* the single field of an AutomationStep, as a sequence of characters
Fields == {<<>>, <<" ">>, <<"x">>}

\* one of the five AutomationStep variants; validate_steps treats all five alike
StepTypes == {"create_note"}

StepValues == [type : StepTypes, field : Fields]

StepLists == UNION {[1..n -> StepValues] : n \in 0..MaxSteps}

\* a row of automation_proposals: steps_json either deserializes to a step list or not
Proposals ==
    [risk_level : RiskLevels, json_ok : {TRUE}, steps : StepLists]
        \cup [risk_level : RiskLevels, json_ok : {FALSE}, steps : {<<>>}]

RECURSIVE TrimStart(_)
\* str::trim, leading part
TrimStart(s) ==
    IF s # <<>> /\ Head(s) = " " THEN TrimStart(Tail(s)) ELSE s

RECURSIVE TrimEnd(_)
\* str::trim, trailing part
TrimEnd(s) ==
    IF s # <<>> /\ s[Len(s)] = " " THEN TrimEnd(SubSeq(s, 1, Len(s) - 1)) ELSE s

Trim(s) == TrimEnd(TrimStart(s))

\* the mutated form of validate_steps: the last step is not validated
ValidateStepsSkipLast(steps) ==
    \A i \in 1..(Len(steps) - 1) : Trim(steps[i].field) # <<>>

\* validate_steps returns Ok
ValidateSteps(steps) ==
    \A i \in 1..Len(steps) : Trim(steps[i].field) # <<>>

NullMetadata == [steps_total |-> -1, steps_success |-> -1]

AbsentRow == [status |-> "absent", finished_at |-> "null", metadata |-> NullMetadata]

NoBg == [pc |-> "none", steps_total |-> 0, steps_success |-> 0, result |-> "none"]

\* a step list holds a step whose field consists of whitespace only (or of nothing)
HasBlankField(steps) ==
    \E i \in 1..Len(steps) :
        \A j \in 1..Len(steps[i].field) : steps[i].field[j] = " "

\* a step list holds a step with a blank field behind a step with a field that is not blank
HasBlankAfterValid(steps) ==
    \E i, j \in 1..Len(steps) :
        /\ i < j
        /\ \E c \in 1..Len(steps[i].field) : steps[i].field[c] # " "
        /\ \A c \in 1..Len(steps[j].field) : steps[j].field[c] = " "

NoCall == [op |-> "none", ret |-> "none", risk_level |-> "none", json_ok |-> TRUE,
           blank_field |-> FALSE, blank_after_valid |-> FALSE, id |-> 0]

\* the record of an execute_automation call on proposal p
ExecuteCall(p, ret, id) ==
    [op |-> "execute", ret |-> ret, risk_level |-> p.risk_level,
     json_ok |-> p.json_ok, blank_field |-> HasBlankField(p.steps),
     blank_after_valid |-> HasBlankAfterValid(p.steps), id |-> id]

NoCancel == [seen |-> FALSE, completed |-> 0, total |-> 0, started |-> 0, pc |-> "none"]

\* the mutated form of the risk gate: only high risk is blocked
RiskBlockedHighOnly(p) == p.risk_level = "high"

\* execute_automation: `if risk_level != "low"`
RiskBlocked(p) == p.risk_level # "low"

\* what execute_automation returns for proposal p before it touches the store
ExecuteGate(p) ==
    IF RiskBlocked(p) THEN "AGENT_RISK_BLOCKED"
    ELSE IF ~p.json_ok THEN "AGENT_STEP_NOT_ALLOWED"
    ELSE IF ~ValidateSteps(p.steps) THEN "AGENT_STEP_NOT_ALLOWED"
    ELSE "pass"

\* the mutated form of NewExecutionIds: the row of a finished execution is replaced
NewExecutionIdsReplacing(rows) ==
    {e \in ExecIds : rows[e].status # "running"}

\* INSERT INTO agent_executions ... last_insert_rowid(): the ids a new row can get
NewExecutionIds(rows) ==
    {e \in ExecIds : /\ rows[e].status = "absent"
                      /\ \A f \in ExecIds : f < e => rows[f].status # "absent"}

\* UPDATE agent_executions SET status, finished_at, error_message, metadata_json WHERE id = ?
UpdateExecution(rows, id, status, metadata) ==
    [rows EXCEPT ![id] = [status |-> status, finished_at |-> "set", metadata |-> metadata]]

\* the mutated form of cancel_execution's effect on the map: a missing flag is inserted
CancelFlagsInserting(flags, id) ==
    [flags EXCEPT ![id] = "true"]

\* cancel_execution: `if let Some(flag) = map.get(&id) { flag.store(true) }`
CancelFlagsAfter(flags, id) ==
    IF flags[id] = "absent" THEN flags ELSE [flags EXCEPT ![id] = "true"]

\* the mutated form of the loop head: the flag is not looked at
CancelObservedNever(flags, e) == FALSE

\* `if cancel_flag_bg.load(Ordering::Relaxed)` at the head of the loop over the steps
CancelObserved(flags, e) == flags[e] = "true"

\* the mutated form of AuditStatus: the cancel token is not recognised as a failure
AuditStatusCancelAsSuccess(result) ==
    IF result = "failed" THEN "failed" ELSE "success"

\* the status written by the audit: Ok => success, message holds the cancel token => cancelled
AuditStatus(result) ==
    IF result = "ok" THEN "success"
    ELSE IF result = "cancelled" THEN "cancelled"
    ELSE "failed"

AgentInit ==
    /\ agent_executions = [e \in ExecIds |-> AbsentRow]
    /\ EXECUTION_CANCEL_FLAGS = [e \in ExecIds |-> "absent"]
    /\ bg = [e \in ExecIds |-> NoBg]
    /\ last_call = NoCall
    /\ cancel_info = [e \in ExecIds |-> NoCancel]
    /\ steps_started = [e \in ExecIds |-> 0]
    /\ step_log = [e \in ExecIds |-> <<>>]

\* the proposals execute_automation turns away at a gate
RejectedProposals == {p \in Proposals : ExecuteGate(p) # "pass"}

\* the proposals execute_automation lets through both gates
AcceptedProposals == {p \in Proposals : ExecuteGate(p) = "pass"}

\* the distinct calls that end at a gate, with what each returns
RejectedCalls == {ExecuteCall(p, ExecuteGate(p), 0) : p \in RejectedProposals}

\* execute_automation returns at a gate: AGENT_RISK_BLOCKED or AGENT_STEP_NOT_ALLOWED
ExecuteRejected ==
    \E call \in RejectedCalls :
        /\ last_call' = call
        /\ UNCHANGED <<agent_executions, EXECUTION_CANCEL_FLAGS, bg, cancel_info,
                       steps_started, step_log>>
        /\ UNCHANGED nonAgentVars

\* execute_automation passes the gates, the INSERT fails: `.await?` returns the error
ExecuteInsertFails ==
    \E p \in AcceptedProposals :
        /\ last_call' = ExecuteCall(p, "DB_ERROR", 0)
        /\ UNCHANGED <<agent_executions, EXECUTION_CANCEL_FLAGS, bg, cancel_info,
                       steps_started, step_log>>
        /\ UNCHANGED nonAgentVars

\* execute_automation passes the gates: INSERT, flag registration, spawn, return
ExecuteAutomation ==
    \E p \in AcceptedProposals, id \in NewExecutionIds(agent_executions) :
        /\ agent_executions' = [agent_executions EXCEPT ![id] =
               [status |-> "running", finished_at |-> "null", metadata |-> NullMetadata]]
        /\ EXECUTION_CANCEL_FLAGS' = [EXECUTION_CANCEL_FLAGS EXCEPT ![id] = "false"]
        /\ bg' = [bg EXCEPT ![id] = [pc |-> "check", steps_total |-> Len(p.steps),
                                     steps_success |-> 0, result |-> "none"]]
        /\ last_call' = ExecuteCall(p, "running", id)
        /\ cancel_info' = [cancel_info EXCEPT ![id] = NoCancel]
        /\ steps_started' = [steps_started EXCEPT ![id] = 0]
        /\ step_log' = [step_log EXCEPT ![id] = <<>>]
        /\ UNCHANGED nonAgentVars

\* cancel_execution(id), for any id the caller may pass
CancelExecution ==
    \E id \in ExecIds :
        /\ EXECUTION_CANCEL_FLAGS' = CancelFlagsAfter(EXECUTION_CANCEL_FLAGS, id)
        /\ cancel_info' =
              IF EXECUTION_CANCEL_FLAGS[id] = "false" /\ agent_executions[id].status = "running"
              THEN [cancel_info EXCEPT ![id] =
                       [seen |-> TRUE, completed |-> bg[id].steps_success,
                        total |-> bg[id].steps_total, started |-> steps_started[id],
                        pc |-> bg[id].pc]]
              ELSE cancel_info
        /\ last_call' = [NoCall EXCEPT !.op = "cancel", !.ret = "ok", !.id = id]
        /\ UNCHANGED <<agent_executions, bg, steps_started, step_log>>
        /\ UNCHANGED nonAgentVars

\* background task, head of the `for step in &steps_bg` loop: the flag is loaded and,
\* when it is clear, execute_step is entered
BgCheck ==
    \E e \in ExecIds :
        /\ bg[e].pc = "check"
        /\ IF bg[e].steps_success = bg[e].steps_total
           THEN /\ bg' = [bg EXCEPT ![e].pc = "cleanup", ![e].result = "ok"]
                /\ UNCHANGED steps_started
           ELSE IF CancelObserved(EXECUTION_CANCEL_FLAGS, e)
           THEN /\ bg' = [bg EXCEPT ![e].pc = "cleanup", ![e].result = "cancelled"]
                /\ UNCHANGED steps_started
           ELSE /\ bg' = [bg EXCEPT ![e].pc = "step"]
                /\ steps_started' = [steps_started EXCEPT ![e] = @ + 1]
        /\ last_call' = NoCall
        /\ UNCHANGED <<agent_executions, EXECUTION_CANCEL_FLAGS, cancel_info, step_log>>
        /\ UNCHANGED nonAgentVars

\* background task: execute_step returns
BgStep ==
    \E e \in ExecIds, step_ok \in BOOLEAN :
        /\ bg[e].pc = "step"
        /\ bg' = IF step_ok
                 THEN [bg EXCEPT ![e].pc = "check", ![e].steps_success = @ + 1]
                 ELSE [bg EXCEPT ![e].pc = "cleanup", ![e].result = "failed"]
        /\ step_log' = [step_log EXCEPT ![e] =
                            Append(@, [index |-> steps_started[e], ok |-> step_ok])]
        /\ last_call' = NoCall
        /\ UNCHANGED <<agent_executions, EXECUTION_CANCEL_FLAGS, cancel_info, steps_started>>
        /\ UNCHANGED nonAgentVars

\* the mutated form of BgCleanup: the flag is left in the map
BgCleanupKeepingFlag ==
    \E e \in ExecIds :
        /\ bg[e].pc = "cleanup"
        /\ bg' = [bg EXCEPT ![e].pc = "audit"]
        /\ last_call' = NoCall
        /\ UNCHANGED <<agent_executions, EXECUTION_CANCEL_FLAGS, cancel_info, steps_started, step_log>>
        /\ UNCHANGED nonAgentVars

\* background task: EXECUTION_CANCEL_FLAGS.lock().await.remove(&execution_id)
BgCleanup ==
    \E e \in ExecIds :
        /\ bg[e].pc = "cleanup"
        /\ EXECUTION_CANCEL_FLAGS' = [EXECUTION_CANCEL_FLAGS EXCEPT ![e] = "absent"]
        /\ bg' = [bg EXCEPT ![e].pc = "audit"]
        /\ last_call' = NoCall
        /\ UNCHANGED <<agent_executions, cancel_info, steps_started, step_log>>
        /\ UNCHANGED nonAgentVars

\* background task: the final UPDATE, whose result is dropped (`let _ =`); the task ends
BgAudit ==
    \E e \in ExecIds, update_ok \in BOOLEAN :
        /\ bg[e].pc = "audit"
        /\ agent_executions' =
              IF update_ok
              THEN UpdateExecution(agent_executions, e, AuditStatus(bg[e].result),
                                   [steps_total |-> bg[e].steps_total,
                                    steps_success |-> bg[e].steps_success])
              ELSE agent_executions
        /\ bg' = [bg EXCEPT ![e] = [NoBg EXCEPT !.pc = "done"]]
        /\ step_log' = [step_log EXCEPT ![e] = <<>>]
        /\ last_call' = NoCall
        /\ UNCHANGED <<EXECUTION_CANCEL_FLAGS, cancel_info, steps_started>>
        /\ UNCHANGED nonAgentVars

AgentNext ==
    \/ ExecuteRejected
    \/ ExecuteInsertFails
    \/ ExecuteAutomation
    \/ CancelExecution
    \/ BgCheck
    \/ BgStep
    \/ BgCleanup
    \/ BgAudit

(***************************************************************************)
(* Capture worker: src-tauri/src/recorder.rs                               *)
(***************************************************************************)
\* Option values: None is the empty sequence, Some(v) the sequence holding v
None == <<>>

Some(v) == <<v>>

\* a u64 perceptual hash is the set of the positions of its 1 bits (bit 0 = lowest)
Hashes == {{}, 0..4, 0..5, (0..4) \cup {PhashBits - 1}}

\* what the UI-automation extractor hands back: nothing, blanks, or a text
UiaResults == {None, Some(<<" ">>), Some(<<"a">>), Some(<<"b", " ">>)}

SkipReasons == {"privacy_mode", "blocklist", "allowlist_miss", "duplicate_frame"}

\* config.recording_interval in ms: the default (5 s) and 90 s
RecordingIntervals == {DefaultRecordingInterval, 90000}

\* the part of AppConfig the recorder reads
AppConfigs == [recording_interval : RecordingIntervals,
               privacy_mode_enabled : BOOLEAN,
               privacy_mode_until : {None, Some("future"), Some("past")}]

\* config.blocklist_mode is a free string: the two modes and some other value
BlocklistModes == {"blocklist", "allowlist", "other"}

\* window_info.process_name: a.exe, A.EXE, b
ProcessNames == {<<"a", ".", "e", "x", "e">>, <<"A", ".", "E", "X", "E">>, <<"b">>}

\* rows of app_blocklist as the user typed them: a, ` "c/A.exe" `, b.exe, c\
BlocklistEntries ==
    {<<"a">>,
     <<" ", "\"", "c", "/", "A", ".", "e", "x", "e", "\"", " ">>,
     <<"b", ".", "e", "x", "e">>,
     <<"c", "\\">>}

\* db::get_blocklist(): the rows of app_blocklist, up to two of them
Blocklists == {<<>>} \cup {<<e>> : e \in BlocklistEntries}
                  \cup {<<e, f>> : e \in BlocklistEntries, f \in BlocklistEntries}

\* what the blocklist check of one capture_and_save run reads
PolicyInputs == [blocklist_enabled : BOOLEAN, blocklist_mode : BlocklistModes,
                 blocklist : Blocklists, process_name : ProcessNames]

RECURSIVE TrimMatches(_, _)
\* str::trim_matches(ch): ch taken off both ends as long as it is there
TrimMatches(s, ch) ==
    IF s # <<>> /\ Head(s) = ch THEN TrimMatches(Tail(s), ch)
    ELSE IF s # <<>> /\ s[Len(s)] = ch THEN TrimMatches(SubSeq(s, 1, Len(s) - 1), ch)
    ELSE s

PathSeparators == {"/", "\\"}

RECURSIVE StripTrailingSeparators(_)
StripTrailingSeparators(s) ==
    IF s # <<>> /\ s[Len(s)] \in PathSeparators
    THEN StripTrailingSeparators(SubSeq(s, 1, Len(s) - 1))
    ELSE s

RECURSIVE LastComponent(_)
\* what follows the last separator of s
LastComponent(s) ==
    IF s = <<>> \/ s[Len(s)] \in PathSeparators THEN <<>>
    ELSE Append(LastComponent(SubSeq(s, 1, Len(s) - 1)), s[Len(s)])

\* Path::file_name: the last component, None for an empty path, a root or `..`
PathFileName(path) ==
    LET p == StripTrailingSeparators(path)
    IN  IF p = <<>> \/ LastComponent(p) = <<".", ".">> THEN None
        ELSE Some(LastComponent(p))

LowerChar(c) ==
    IF c = "A" THEN "a" ELSE IF c = "E" THEN "e" ELSE IF c = "X" THEN "x" ELSE c

\* str::to_lowercase
ToLowercase(s) == [i \in 1..Len(s) |-> LowerChar(s[i])]

\* lower.strip_suffix(".exe"), the string itself where there is no such suffix
StripSuffixExe(s) ==
    IF Len(s) >= 4 /\ SubSeq(s, Len(s) - 3, Len(s)) = <<".", "e", "x", "e">>
    THEN SubSeq(s, 1, Len(s) - 4)
    ELSE s

\* normalize_app_name
normalize_app_name(name) ==
    LET trimmed == TrimMatches(Trim(name), "\"")
        file_name == IF PathFileName(trimmed) = None THEN trimmed
                     ELSE PathFileName(trimmed)[1]
    IN  StripSuffixExe(ToLowercase(file_name))

\* blocklist.iter().any(|b| normalize_app_name(b) == app_name_norm)
IsBlocked(blocklist, process_name) ==
    \E i \in 1..Len(blocklist) :
        normalize_app_name(blocklist[i]) = normalize_app_name(process_name)

Pow2(n) == IF n = 0 THEN 1 ELSE IF n = 1 THEN 2 ELSE IF n = 2 THEN 4 ELSE 8

\* the value of the hex digit that holds bits 4d .. 4d+3 of hash h
HexDigit(h, d) ==
    LET bit(b) == IF (4 * d + b) \in h THEN Pow2(b) ELSE 0
    IN  bit(0) + bit(1) + bit(2) + bit(3)

\* the mutated form of FormatPhash: the lowest digit first
FormatPhashLowestFirst(h) == [i \in 1..PhashHexDigits |-> HexDigit(h, i - 1)]

\* format!("{:016x}", current_hash): 16 digits, the highest first
FormatPhash(h) == [i \in 1..PhashHexDigits |-> HexDigit(h, PhashHexDigits - i)]

\* the positions of the 1 bits of each hex digit
DigitBits == [d \in 0..15 |-> {b \in 0..3 : (d \div Pow2(b)) % 2 = 1}]

\* u64::from_str_radix(phash_str, 16).ok(): the last digit holds bits 0..3
parse_phash(str) ==
    IF Len(str) = 0 \/ Len(str) > PhashHexDigits THEN None
    ELSE Some(UNION {{4 * (Len(str) - i) + b : b \in DigitBits[str[i]]} : i \in 1..Len(str)})

\* (hash1 ^ hash2).count_ones()
hamming_distance(hash1, hash2) ==
    Cardinality((hash1 \ hash2) \cup (hash2 \ hash1))

\* uia_text.and_then(|text| if text.trim().is_empty() { None } else { Some(text) })
NormalizeUiaText(uia) ==
    IF uia = None THEN None
    ELSE IF Trim(uia[1]) = <<>> THEN None
    ELSE uia

CharCode(c) == IF c = " " THEN 32 ELSE IF c = "a" THEN 97 ELSE 98

RECURSIVE HashText(_)
\* DefaultHasher over the text: a deterministic function of the characters
HashText(text) ==
    IF text = <<>> THEN 7
    ELSE (31 * HashText(SubSeq(text, 1, Len(text) - 1)) + CharCode(text[Len(text)])) % 1024

\* uia_text.as_ref().map(|text| hash of text)
CurrentTextHash(uia_text) ==
    IF uia_text = None THEN None ELSE Some(HashText(uia_text[1]))

\* the mutated form of VisualChanged: a distance equal to the threshold counts as changed
VisualChangedAtThreshold(last_phash, current_hash) ==
    IF last_phash = None THEN TRUE
    ELSE IF parse_phash(last_phash[1]) = None THEN TRUE
    ELSE hamming_distance(current_hash, parse_phash(last_phash[1])[1])
             >= DEDUP_HAMMING_THRESHOLD

\* `let visual_changed = ...`: no last hash, or unparsable, or distance > threshold
VisualChanged(last_phash, current_hash) ==
    IF last_phash = None THEN TRUE
    ELSE IF parse_phash(last_phash[1]) = None THEN TRUE
    ELSE hamming_distance(current_hash, parse_phash(last_phash[1])[1])
             > DEDUP_HAMMING_THRESHOLD

\* `let text_changed = match (&current_text_hash, &last_text_hash)`
TextChanged(current_text_hash, last_text_hash) ==
    IF current_text_hash # None /\ last_text_hash # None
    THEN current_text_hash[1] # last_text_hash[1]
    ELSE IF current_text_hash = None /\ last_text_hash = None THEN FALSE
    ELSE TRUE

Min(a, b) == IF a < b THEN a ELSE b

Max(a, b) == IF a > b THEN a ELSE b

\* the mutated form of AdjustHeartbeat: no saturation at the ends of the range
AdjustHeartbeatUnclamped(current, on_duplicate) ==
    IF on_duplicate THEN current + HeartbeatStep ELSE Max(current - HeartbeatStep, 0)

\* adjust_heartbeat(on_duplicate): the value stored by the compare_exchange
AdjustHeartbeat(current, on_duplicate) ==
    IF on_duplicate
    THEN Min(current + HeartbeatStep, HeartbeatMax)
    ELSE Max(Max(current - HeartbeatStep, 0), HeartbeatMin)

\* the mutated form of PrivacyGate: the deadline is not looked at
PrivacyGateIgnoringDeadline(c) ==
    IF c.privacy_mode_enabled THEN "skip" ELSE "pass"

\* the privacy gate: "skip", or "pass" (privacy off, or its deadline is over)
PrivacyGate(c) ==
    IF ~c.privacy_mode_enabled THEN "pass"
    ELSE IF c.privacy_mode_until = None THEN "skip"
    ELSE IF c.privacy_mode_until = Some("past") THEN "pass"
    ELSE "skip"

\* CONFIG once the privacy gate is passed: an expired privacy mode is switched off
\* through update_config, which stores the new config in CONFIG before it writes
\* the file, so that CONFIG changes whether or not the write succeeds (APP_HANDLE
\* is set during setup, before any command can start the recorder)
ConfigAfterPrivacyGate(c) ==
    IF c.privacy_mode_enabled /\ c.privacy_mode_until = Some("past")
    THEN [c EXCEPT !.privacy_mode_enabled = FALSE, !.privacy_mode_until = None]
    ELSE c

\* the mutated form of PolicyGate: allowlist mode lets every app through
PolicyGateBlocklistOnly(pol) ==
    IF ~pol.blocklist_enabled THEN "pass"
    ELSE IF pol.blocklist_mode = "blocklist"
    THEN (IF IsBlocked(pol.blocklist, pol.process_name) THEN "blocklist" ELSE "pass")
    ELSE "pass"

\* the policy gate: the skip reason, or "pass"
PolicyGate(pol) ==
    IF ~pol.blocklist_enabled THEN "pass"
    ELSE IF pol.blocklist_mode = "blocklist"
    THEN (IF IsBlocked(pol.blocklist, pol.process_name) THEN "blocklist" ELSE "pass")
    ELSE IF pol.blocklist_mode = "allowlist"
    THEN (IF ~IsBlocked(pol.blocklist, pol.process_name) THEN "allowlist_miss" ELSE "pass")
    ELSE "pass"

\* history: how the privacy setting reads when a run starts
PrivacyReading(c) ==
    IF c.privacy_mode_enabled /\ c.privacy_mode_until \in {None, Some("future")}
    THEN "active"
    ELSE IF c.privacy_mode_enabled THEN "expired"
    ELSE "off"

\* history: the skip the blocklist setting asks for the foreground app, or "none"
PolicySkipDue(pol) ==
    LET entries == {normalize_app_name(pol.blocklist[i]) : i \in 1..Len(pol.blocklist)}
        listed == normalize_app_name(pol.process_name) \in entries
    IN  IF pol.blocklist_enabled /\ pol.blocklist_mode = "blocklist" /\ listed
        THEN "blocklist"
        ELSE IF pol.blocklist_enabled /\ pol.blocklist_mode = "allowlist" /\ ~listed
        THEN "allowlist_miss"
        ELSE "none"

\* the policy gate's answer and the skip that is due, over all the inputs
PolicyReadings == {<<PolicyGate(pol), PolicySkipDue(pol)>> : pol \in PolicyInputs}

SkipsIssued == skipped_stats["privacy_mode"] + skipped_stats["blocklist"]
                   + skipped_stats["allowlist_miss"] + skipped_stats["duplicate_frame"]

\* tokio::spawn(increment_skipped_stat(reason))
IncrementSkippedStat(stats, reason) == [stats EXCEPT ![reason] = @ + 1]

NoCapture == [outcome |-> "none", ret |-> "none", privacy |-> "none",
              policy_due |-> "none", hash |-> None, text_hash |-> None]

\* the record of a capture_and_save run that got no frame
GateOutcome(outcome, ret, privacy, policy_due) ==
    [NoCapture EXCEPT !.outcome = outcome, !.ret = ret, !.privacy = privacy,
                      !.policy_due = policy_due]

\* the record of a capture_and_save run that got a frame
FrameOutcome(outcome, ret, privacy, policy_due, current_hash, current_text_hash) ==
    [outcome |-> outcome, ret |-> ret, privacy |-> privacy, policy_due |-> policy_due,
     hash |-> Some(current_hash), text_hash |-> current_text_hash]

\* the default AppConfig (serde defaults): 5 s interval, privacy mode off
DefaultConfig == [recording_interval |-> DefaultRecordingInterval,
                  privacy_mode_enabled |-> FALSE, privacy_mode_until |-> None]

\* (config.recording_interval / 1000).max(10).min(60)
HeartbeatOfInterval(recording_interval) ==
    Min(Max(recording_interval \div 1000, HeartbeatMin), HeartbeatMax)

Hwnds == 0..MaxHwnd

NoPoller == [pc |-> "none", last_hwnd |-> 0, polled |-> FALSE]

NoBurst == [events |-> 0, age |-> 0, latest |-> 0, attempts |-> 0, attempt_for |-> 0]

NoWake == [cause |-> "none", captured |-> FALSE, recording |-> FALSE]

LoopInit ==
    /\ RECORDING = FALSE
    /\ loop_pc = "none"
    /\ older_loops = 0
    /\ loop_interval = None
    /\ elapsed = 0
    /\ event_rx = <<>>
    /\ foreground = 0
    /\ poller = NoPoller
    /\ burst = NoBurst
    /\ last_wake = NoWake

CaptureInit ==
    /\ config = None
    /\ LAST_PHASH = None
    /\ LAST_TEXT_HASH = None
    /\ HEARTBEAT_SECS = HeartbeatInitial
    /\ activity_count = 0
    /\ skipped_stats = [r \in SkipReasons |-> 0]
    /\ last_capture = NoCapture
    /\ last_saved_hash = None

\* init_config: CONFIG becomes the content of config.json, or the default config
\* where there is no such file (a failure leaves CONFIG as None)
InitConfig ==
    /\ config = None
    /\ \E c \in AppConfigs : config' = Some(c)
    /\ last_capture' = NoCapture
    /\ UNCHANGED <<LAST_PHASH, LAST_TEXT_HASH, HEARTBEAT_SECS, activity_count,
                   skipped_stats, last_saved_hash>>
    /\ UNCHANGED nonCaptureVars

\* the set_privacy_mode command: get_config()?, then update_config, which stores
\* the new config in CONFIG before it writes the file
SetPrivacyMode ==
    /\ config # None
    /\ \E enabled \in BOOLEAN, until_ts \in {None, Some("future"), Some("past")} :
          /\ config' = Some([config[1] EXCEPT !.privacy_mode_enabled = enabled,
                                              !.privacy_mode_until = until_ts])
          /\ config' # config
    /\ last_capture' = NoCapture
    /\ UNCHANGED <<LAST_PHASH, LAST_TEXT_HASH, HEARTBEAT_SECS, activity_count,
                   skipped_stats, last_saved_hash>>
    /\ UNCHANGED nonCaptureVars

\* time passes: `now > until` becomes true
PrivacyDeadlinePasses ==
    /\ config # None
    /\ config[1].privacy_mode_until = Some("future")
    /\ config' = Some([config[1] EXCEPT !.privacy_mode_until = Some("past")])
    /\ last_capture' = NoCapture
    /\ UNCHANGED <<LAST_PHASH, LAST_TEXT_HASH, HEARTBEAT_SECS, activity_count,
                   skipped_stats, last_saved_hash>>
    /\ UNCHANGED nonCaptureVars

\* recorder::start (the start_recording command): the flag is swapped to true and, if
\* it was false, recording_loop is spawned; a loop of an earlier start() that has not
\* returned yet runs on beside the new one, with its own event subscription, and is
\* followed from here on by its wakes only
Start ==
    /\ ~RECORDING
    /\ RECORDING' = TRUE
    /\ loop_pc' = "spawned"
    /\ IF loop_pc = "none"
       THEN UNCHANGED older_loops
       ELSE older_loops < MaxOlderLoops /\ older_loops' = older_loops + 1
    /\ event_rx' = <<>>
    /\ poller' = NoPoller
    /\ burst' = NoBurst
    /\ last_wake' = NoWake
    /\ UNCHANGED <<loop_interval, elapsed, foreground>>
    /\ UNCHANGED captureVars
    /\ UNCHANGED nonRecorderVars

\* recording_loop up to its first `while RECORDING.load()`: the config is loaded (the
\* default one where get_config fails), the heartbeat is set from its interval, the
\* event recorder is started
LoopPrelude ==
    /\ loop_pc = "spawned"
    /\ LET c == IF config = None THEN DefaultConfig ELSE config[1]
       IN  /\ loop_interval' = Some(c.recording_interval)
           /\ HEARTBEAT_SECS' = HeartbeatOfInterval(c.recording_interval)
    /\ elapsed' = 0
    /\ IF RECORDING
       THEN /\ loop_pc' = "select"
            /\ event_rx' = <<>>
            /\ poller' = [pc |-> "running", last_hwnd |-> 0, polled |-> FALSE]
       ELSE /\ loop_pc' = "none"
            /\ event_rx' = <<>>
            /\ poller' = NoPoller
    /\ burst' = NoBurst
    /\ last_wake' = NoWake
    /\ last_capture' = NoCapture
    /\ UNCHANGED <<config, LAST_PHASH, LAST_TEXT_HASH, activity_count, skipped_stats,
                   last_saved_hash>>
    /\ UNCHANGED <<RECORDING, older_loops, foreground>>
    /\ UNCHANGED nonRecorderVars

\* capture_and_save where get_config() fails (CONFIG is None): `Err(_) => return Ok(())`
CaptureConfigErrorRun ==
    /\ config = None
    /\ last_capture' = GateOutcome("config_error", "Ok", "none", "none")
    /\ UNCHANGED <<config, LAST_PHASH, LAST_TEXT_HASH, HEARTBEAT_SECS, activity_count,
                   skipped_stats, last_saved_hash>>

\* a wake of the loop whose capture_and_save finds no config
CaptureConfigError ==
    /\ loop_pc = "select"
    /\ CaptureConfigErrorRun
    /\ UNCHANGED nonCaptureVars

\* capture_and_save, privacy mode active: skip with reason privacy_mode
CapturePrivacySkip ==
    /\ loop_pc = "select"
    /\ config # None
    /\ PrivacyGate(config[1]) = "skip"
    /\ SkipsIssued < MaxSkips
    /\ skipped_stats' = IncrementSkippedStat(skipped_stats, "privacy_mode")
    /\ last_capture' = GateOutcome("privacy_mode", "Ok", PrivacyReading(config[1]), "none")
    /\ UNCHANGED <<config, LAST_PHASH, LAST_TEXT_HASH, HEARTBEAT_SECS, activity_count,
                   last_saved_hash>>
    /\ UNCHANGED nonCaptureVars

\* capture_and_save, past the privacy gate, the policy gate skips: reason blocklist
\* or allowlist_miss
CapturePolicySkip ==
    /\ loop_pc = "select"
    /\ config # None
    /\ PrivacyGate(config[1]) = "pass"
    /\ SkipsIssued < MaxSkips
    /\ \E r \in PolicyReadings :
          /\ r[1] # "pass"
          /\ skipped_stats' = IncrementSkippedStat(skipped_stats, r[1])
          /\ last_capture' = GateOutcome(r[1], "Ok", PrivacyReading(config[1]), r[2])
    /\ config' = Some(ConfigAfterPrivacyGate(config[1]))
    /\ UNCHANGED <<LAST_PHASH, LAST_TEXT_HASH, HEARTBEAT_SECS, activity_count,
                   last_saved_hash>>
    /\ UNCHANGED nonCaptureVars

\* capture_and_save, past the privacy gate, returns Err before the dedup decision:
\* no window info (no policy reading), get_blocklist failed (whatever the list
\* holds), or UI automation or the screen capture failed past the policy gate
CaptureError ==
    /\ loop_pc = "select"
    /\ config # None
    /\ PrivacyGate(config[1]) = "pass"
    /\ \E policy_due \in {"none"} \cup {r[2] : r \in PolicyReadings} :
          last_capture' = GateOutcome("error", "Err", PrivacyReading(config[1]), policy_due)
    /\ config' = Some(ConfigAfterPrivacyGate(config[1]))
    /\ UNCHANGED <<LAST_PHASH, LAST_TEXT_HASH, HEARTBEAT_SECS, activity_count,
                   skipped_stats, last_saved_hash>>
    /\ UNCHANGED nonCaptureVars

\* capture_and_save, past both gates with a frame: the dedup decision and what follows.
\*   save_ok       screenshots dir known, file written, row inserted
\* (the get_config() ahead of the OCR enqueue cannot fail: CONFIG was Some when the
\* run started and nothing sets it back to None)
CaptureFrame ==
    /\ loop_pc = "select"
    /\ config # None
    /\ PrivacyGate(config[1]) = "pass"
    /\ \E r \in PolicyReadings, current_hash \in Hashes :
        /\ r[1] = "pass"
        /\ LET visual_changed == VisualChanged(LAST_PHASH, current_hash)
               privacy == PrivacyReading(config[1])
           IN  \E uia \in UiaResults :
               LET uia_text == NormalizeUiaText(uia)
                   current_text_hash == CurrentTextHash(uia_text)
                   text_changed == TextChanged(current_text_hash, LAST_TEXT_HASH)
               IN  IF ~visual_changed /\ ~text_changed
                   THEN /\ SkipsIssued < MaxSkips
                        /\ HEARTBEAT_SECS' = AdjustHeartbeat(HEARTBEAT_SECS, TRUE)
                        /\ skipped_stats' =
                              IncrementSkippedStat(skipped_stats, "duplicate_frame")
                        /\ last_capture' = FrameOutcome("duplicate_frame", "Ok", privacy,
                                                        r[2], current_hash,
                                                        current_text_hash)
                        /\ UNCHANGED <<LAST_PHASH, LAST_TEXT_HASH, activity_count,
                                       last_saved_hash>>
                   ELSE \E save_ok \in BOOLEAN :
                        IF ~save_ok
                        THEN /\ last_capture' = FrameOutcome("save_failed", "Err", privacy,
                                                             r[2], current_hash,
                                                             current_text_hash)
                             /\ UNCHANGED <<LAST_PHASH, LAST_TEXT_HASH, HEARTBEAT_SECS,
                                            activity_count, skipped_stats,
                                            last_saved_hash>>
                        ELSE /\ activity_count < MaxActivities
                             /\ activity_count' = activity_count + 1
                             /\ LAST_PHASH' = Some(FormatPhash(current_hash))
                             /\ LAST_TEXT_HASH' = current_text_hash
                             /\ HEARTBEAT_SECS' = AdjustHeartbeat(HEARTBEAT_SECS, FALSE)
                             /\ last_capture' = FrameOutcome("saved", "Ok", privacy, r[2],
                                                             current_hash,
                                                             current_text_hash)
                             /\ last_saved_hash' = Some(current_hash)
                             /\ UNCHANGED skipped_stats
    /\ config' = Some(ConfigAfterPrivacyGate(config[1]))
    /\ UNCHANGED nonCaptureVars

CaptureNext ==
    \/ InitConfig
    \/ Start
    \/ LoopPrelude
    \/ SetPrivacyMode
    \/ PrivacyDeadlinePasses
    \/ CaptureConfigError
    \/ CapturePrivacySkip
    \/ CapturePolicySkip
    \/ CaptureError
    \/ CaptureFrame

(***************************************************************************)
(* Activity search: src-tauri/src/db.rs (the search_activities command)    *)
(* and crates/memflow-core/src/db.rs (the MCP server's search)             *)
(***************************************************************************)
Timestamps == {1, 2}

\* ocr_text: NULL, '', or one word
OcrTexts == {None, Some(<<>>), Some(<<"t">>)}

\* rows of A.EXE and of b
ActivityRows ==
    [timestamp : Timestamps,
     app_name : {n \in ProcessNames : ToLowercase(n) # n \/ Len(n) = 1},
     ocr_text : OcrTexts]

\* the arguments of a search; order_by decides the order of the rows only
SearchArgs ==
    [query : {None, Some(<<>>), Some(<<"t">>)},
     app_name : {None, Some(<<>>), Some(<<"a">>)},
     from_ts : {None, Some(2)},
     to_ts : {None, Some(1)},
     has_ocr : {None, Some(TRUE), Some(FALSE)},
     limit : {None, Some(1)},
     offset : {None, Some(1)}]

\* REPLACE(s, '.exe', '')
RECURSIVE ReplaceExe(_)
ReplaceExe(s) ==
    IF Len(s) < 4 THEN s
    ELSE IF SubSeq(s, 1, 4) = <<".", "e", "x", "e">>
         THEN ReplaceExe(SubSeq(s, 5, Len(s)))
         ELSE <<Head(s)>> \o ReplaceExe(Tail(s))

\* s LIKE '%' || sub || '%', for a sub without wildcards
Like(s, sub) ==
    \E i \in 0..(Len(s) - Len(sub)) : SubSeq(s, i + 1, i + Len(sub)) = sub

\* the WHERE clause both builders push, for one row
SearchWhere(row, args) ==
    LET has_query == args.query # None /\ args.query[1] # <<>>
    IN  /\ has_query =>
               \* activity_logs_fts MATCH ?  (the index holds the row's ocr_text)
               /\ row.ocr_text # None
               /\ \E i \in DOMAIN row.ocr_text[1] : row.ocr_text[1][i] = args.query[1][1]
        /\ (args.app_name # None /\ args.app_name[1] # <<>>) =>
               \/ Like(ToLowercase(row.app_name), ToLowercase(args.app_name[1]))
               \/ Like(ToLowercase(ReplaceExe(row.app_name)), ToLowercase(args.app_name[1]))
        /\ args.from_ts # None => row.timestamp >= args.from_ts[1]
        /\ args.to_ts # None => row.timestamp <= args.to_ts[1]
        /\ args.has_ocr # None =>
               IF args.has_ocr[1]
               THEN row.ocr_text # None /\ row.ocr_text[1] # <<>>
               ELSE row.ocr_text = None \/ row.ocr_text[1] = <<>>

\* SELECT COUNT(*) ... WHERE ...
CountMatching(logs, args) ==
    Cardinality({id \in DOMAIN logs : SearchWhere(logs[id], args)})

\* SQLite rejects OFFSET without LIMIT: fetch_all(...).await? returns the error
SelectFails(args) == args.limit = None /\ args.offset # None

\* the number of rows SELECT ... LIMIT ? OFFSET ? returns
PageLen(logs, args) ==
    LET after == Max(CountMatching(logs, args) -
                     (IF args.offset = None THEN 0 ELSE args.offset[1]), 0)
    IN  IF args.limit = None THEN after ELSE Min(after, args.limit[1])

NoSearch == [impl |-> "none", ok |-> FALSE, total |-> 0, items |-> 0, matching |-> 0]

\* what a search returns, with the number of rows under its filters at that moment
SearchReturn(impl, logs, args, total) ==
    IF SelectFails(args)
    THEN [impl |-> impl, ok |-> FALSE, total |-> 0, items |-> 0,
          matching |-> CountMatching(logs, args)]
    ELSE [impl |-> impl, ok |-> TRUE, total |-> total, items |-> PageLen(logs, args),
          matching |-> CountMatching(logs, args)]

NoRag == [limit |-> 0, found |-> 0, now |-> 0, results |-> <<>>]

SearchInit ==
    /\ activity_logs = <<>>
    /\ search_call = None
    /\ search_result = NoSearch
    /\ rag_result = NoRag

\* insert_activity, called by the capture worker at the time now: ocr_text is left NULL
InsertActivity ==
    /\ Len(activity_logs) < MaxRows
    /\ \E row \in ActivityRows :
           /\ row.ocr_text = None
           /\ \A id \in DOMAIN activity_logs : activity_logs[id].timestamp <= row.timestamp
           /\ activity_logs' = Append(activity_logs, row)
    /\ UNCHANGED <<search_call, search_result, rag_result>>
    /\ UNCHANGED nonSearchVars

\* update_activity_ocr, called by the OCR worker with the text it recognised
UpdateActivityOcr ==
    /\ \E id \in DOMAIN activity_logs, text \in OcrTexts \ {None} :
           /\ activity_logs[id].ocr_text # text
           /\ activity_logs' = [activity_logs EXCEPT ![id].ocr_text = text]
    /\ UNCHANGED <<search_call, search_result, rag_result>>
    /\ UNCHANGED nonSearchVars

\* src-tauri db::search_activities: one SELECT, total is the literal 0
SearchActivities ==
    /\ search_call = None
    /\ \E args \in SearchArgs :
           search_result' = SearchReturn("tauri", activity_logs, args, 0)
    /\ UNCHANGED <<activity_logs, search_call, rag_result>>
    /\ UNCHANGED nonSearchVars

\* memflow-core search_activities_impl, up to the end of its COUNT query
SearchActivitiesImplCount ==
    /\ search_call = None
    /\ \E args \in SearchArgs :
           search_call' = Some([args |-> args, total |-> CountMatching(activity_logs, args)])
    /\ search_result' = NoSearch
    /\ UNCHANGED <<activity_logs, rag_result>>
    /\ UNCHANGED nonSearchVars

\* memflow-core search_activities_impl, from its SELECT query to its return
SearchActivitiesImplSelect ==
    /\ search_call # None
    /\ search_result' = SearchReturn("core", activity_logs, search_call[1].args,
                                     search_call[1].total)
    /\ search_call' = None
    /\ UNCHANGED <<activity_logs, rag_result>>
    /\ UNCHANGED nonSearchVars

SearchNext ==
    \/ InsertActivity
    \/ UpdateActivityOcr
    \/ SearchActivities
    \/ SearchActivitiesImplCount
    \/ SearchActivitiesImplSelect

(***************************************************************************)
(* Hybrid search: src-tauri/src/ai/rag.rs (HybridSearch::search) and       *)
(* crates/memflow-core/src/ai/rag.rs (search_with_embedding).  A score s   *)
(* of the code is the integer 10 * s before the decay and 10^8 * s after;  *)
(* timestamps and now are counted in periods of 30 days.                   *)
(***************************************************************************)
\* the activities the two retrievals can return
RagIds == 1..(MaxRows + 1)

\* original_score * 0.9f64.powf(days_diff / 30.0), in units of 10^-7, for whole
\* periods up to 7; a timestamp of 0 halves the score and one after now keeps it
calculate_decayed_score(original_score, timestamp, now) ==
    IF timestamp = 0 THEN original_score * 5 * (10 ^ 6)
    ELSE IF now - timestamp < 0 THEN original_score * (10 ^ 7)
    ELSE original_score * (9 ^ (now - timestamp)) * (10 ^ (7 - (now - timestamp)))

\* the orders in which combined.into_iter() can yield the entries of the HashMap
IterationOrders(ids) ==
    {f \in [1..Cardinality(ids) -> ids] : \A i, j \in DOMAIN f : i # j => f[i] # f[j]}

\* final_results.sort_by(|a, b| b.score.partial_cmp(&a.score)...): stable, highest first
RECURSIVE SortByScore(_, _)
SortByScore(seq, score) ==
    IF seq = <<>> THEN <<>>
    ELSE LET rest == SortByScore(Tail(seq), score)
             k == Cardinality({i \in DOMAIN rest : score[rest[i]] > score[Head(seq)]})
         IN  SubSeq(rest, 1, k) \o <<Head(seq)>> \o SubSeq(rest, k + 1, Len(rest))

\* the mutated form of Truncate: nothing is cut
TruncateNothing(seq, limit) == seq

\* final_results.truncate(limit)
Truncate(seq, limit) == SubSeq(seq, 1, Min(limit, Len(seq)))

\* HybridSearch::search from the two retrievals to the returned vector; the function
\* keeps no state between calls, and one call is followed.  Its inputs: the requested
\* limit; per activity the tf-idf score of bm25_search and the cosine score of the vector
\* search, None where the retrieval does not return the activity; the clock; and per
\* activity the timestamp get_timestamps finds, None where it finds no row
HybridSearch ==
    /\ rag_result = NoRag
    /\ \E limit \in 0..MaxRows, bm25 \in [RagIds -> {None, Some(2)}] :
       \E vector \in [RagIds -> {None, Some(1)}] :
           LET candidate_ids == {id \in RagIds : bm25[id] # None}
               vector_ids == {id \in RagIds : vector[id] # None}
               ids == candidate_ids \cup vector_ids
               combined == [id \in ids |->
                               (IF id \in vector_ids THEN 6 * vector[id][1] ELSE 0) +
                               (IF id \in candidate_ids THEN 4 * bm25[id][1] ELSE 0)]
           IN  \* the vector search returns at most limit * 2 rows, of the candidates
               \* when there are any
               /\ Cardinality(vector_ids) <= limit * 2
               /\ candidate_ids # {} => vector_ids \subseteq candidate_ids
               /\ \E now \in {2, 8}, found \in [ids -> {None, Some(0), Some(1), Some(3)}] :
                  \* timestamps.get(&id).copied().unwrap_or(0)
                  \E timestamp \in {[id \in ids |->
                                       IF found[id] = None THEN 0 ELSE found[id][1]]} :
                  \E final \in {[id \in ids |->
                                   calculate_decayed_score(combined[id], timestamp[id], now)]} :
                  \E order \in IterationOrders(ids) :
                  \E sorted \in {Truncate(SortByScore(order, final), limit)} :
                      rag_result' =
                          [limit |-> limit,
                           found |-> Cardinality(ids),
                           now |-> now,
                           results |-> [i \in DOMAIN sorted |->
                                           [id |-> sorted[i],
                                            fused |-> combined[sorted[i]],
                                            timestamp |-> timestamp[sorted[i]],
                                            score |-> final[sorted[i]]]]]
    /\ UNCHANGED <<activity_logs, search_call, search_result>>
    /\ UNCHANGED nonSearchVars

(***************************************************************************)
(* Agent propose: src-tauri/src/agent/mod.rs (propose_automation).  The    *)
(* clock and the rows' timestamps are counted in hours.                    *)
(***************************************************************************)
\* the fallback proposal of the three branches; its title is
\* format!("生成最近 {} 小时活动摘要（规则）", time_window_hours)
RuleProposal(time_window_hours) ==
    [title |-> [text |-> "rule summary", hours |-> time_window_hours],
     risk_level |-> "low",
     steps |-> <<"create_note">>]

\* the mutated form of ProposalsAfterAnalysis: an analysis without tasks adds nothing
ProposalsWithoutEmptyFallback(llm, tasks, time_window_hours) ==
    IF llm = "ok" THEN [i \in 1..Len(tasks) |->
                           [title |-> [text |-> "task", hours |-> 0],
                            risk_level |-> "low",
                            steps |-> <<"create_note">> \o tasks[i]]]
    ELSE <<RuleProposal(time_window_hours)>>

\* the match on timeout(60 s, analyze_for_proposals(&prompt)): llm is "ok" (tasks holds
\* per task of the analysis the steps that restore its urls, files and apps), "error"
\* (no API key, a failed request, an answer that is not the JSON asked for) or "timeout"
ProposalsAfterAnalysis(llm, tasks, time_window_hours) ==
    IF llm = "ok" /\ tasks # <<>>
    THEN [i \in 1..Len(tasks) |->
             [title |-> [text |-> "task", hours |-> 0],
              risk_level |-> "low",
              steps |-> <<"create_note">> \o tasks[i]]]
    ELSE <<RuleProposal(time_window_hours)>>

ProposeInit ==
    propose_result = [ret |-> "none", llm |-> "none", rows |-> 0, hours |-> None,
                      proposals |-> <<>>]

\* propose_automation(params), called at the time now; fetch_fails and insert_fails are
\* a failure or timeout of the SELECT and of an INSERT INTO automation_proposals
ProposeAutomation ==
    /\ \E hours \in {None, Some(0), Some(24), Some(1000)}, now \in {2, 27} :
       \E limit_param \in {None, Some(0), Some(1)} :
       \E llm \in {"ok", "error", "timeout"} :
       \E tasks \in {<<>>, <<<<>>>>, << <<"open_url">>, <<>> >>} :
       \E fetch_fails, insert_fails \in BOOLEAN :
           LET time_window_hours ==
                   Min(Max(IF hours = None THEN 24 ELSE hours[1], 1), 24 * 30)
               limit == Min(Max(IF limit_param = None THEN 10 ELSE limit_param[1], 1), 50)
               since_ts == now - time_window_hours
               rows == {i \in DOMAIN activity_logs : activity_logs[i].timestamp >= since_ts}
               proposals == ProposalsAfterAnalysis(llm, tasks, time_window_hours)
               returned ==
                   IF fetch_fails THEN [ret |-> "err", proposals |-> <<>>]
                   ELSE IF rows = {} THEN [ret |-> "ok", proposals |-> <<>>]
                   ELSE IF insert_fails THEN [ret |-> "err", proposals |-> <<>>]
                   ELSE [ret |-> "ok",
                         proposals |-> SubSeq(proposals, 1, Min(limit, Len(proposals)))]
           IN  /\ (llm # "ok") => tasks = <<>>
               /\ propose_result' =
                      [ret |-> returned.ret,
                       llm |-> IF llm = "ok" /\ tasks = <<>> THEN "empty" ELSE llm,
                       rows |-> Cardinality(rows),
                       hours |-> hours,
                       proposals |-> returned.proposals]
    /\ UNCHANGED <<clock, activity_images, screenshots, gc_result, ingestVars, hostVars>>
    /\ UNCHANGED <<ocrVars, agentVars, captureVars, loopVars, searchVars>>

(***************************************************************************)
(* Screenshots and retention: src-tauri/src/recorder.rs (capture_and_save, *)
(* steps 5 to 9) and src-tauri/src/db.rs (cleanup_old_activities).  The    *)
(* clock counts polling periods of 100 ms; a timestamp is its whole        *)
(* seconds.  days * 86400 is scaled to 0 or 1 of these seconds.            *)
(***************************************************************************)
\* chrono::Utc::now().timestamp()
Timestamp(ticks) == ticks \div 10

\* format!("{}_{}.webp", timestamp, phash_short), phash_short the 16 digits of
\* format!("{:016x}", current_hash)
Filename(timestamp, current_hash) == <<timestamp, FormatPhash(current_hash)>>

StoreInit ==
    /\ clock = 0
    /\ activity_images = <<>>
    /\ screenshots = {}
    /\ gc_result = [ret |-> "none", dry_run |-> FALSE, cutoff_ts |-> 0]

\* 100 ms go by
ClockTick ==
    /\ clock < MaxClock
    /\ clock' = clock + 1
    /\ elapsed' = Min(elapsed + 1, DebounceTicks + 1)
    /\ UNCHANGED <<propose_result, activity_images, screenshots, gc_result, ingestVars, hostVars>>
    /\ UNCHANGED <<RECORDING, loop_pc, older_loops, loop_interval, event_rx, foreground, poller, burst,
                   last_wake>>
    /\ UNCHANGED <<ocrVars, agentVars, captureVars, searchVars>>

\* a capture_and_save run of the recording loop that has passed the gates and taken a
\* frame, from the dedup decision to the update of the last hashes.  The loop starts a
\* run more than 500 ms after the previous one (the debounce of an event wake; a
\* heartbeat wake comes 10 s or more after it).  write_ok and insert_ok are the file
\* write and the row insert succeeding
SaveScreenshot ==
    /\ elapsed > DebounceTicks
    /\ Len(activity_images) < MaxRows
    /\ \E current_hash \in Hashes, uia \in UiaResults, write_ok, insert_ok \in BOOLEAN :
           LET current_text_hash == CurrentTextHash(NormalizeUiaText(uia))
               timestamp == Timestamp(clock)
               filename == Filename(timestamp, current_hash)
           IN  /\ \/ VisualChanged(LAST_PHASH, current_hash)
                  \/ TextChanged(current_text_hash, LAST_TEXT_HASH)
               /\ screenshots' = IF write_ok THEN screenshots \cup {filename}
                                 ELSE screenshots
               /\ IF write_ok /\ insert_ok
                  THEN /\ activity_images' =
                              Append(activity_images,
                                     [timestamp |-> timestamp, image_path |-> filename])
                       /\ LAST_PHASH' = Some(FormatPhash(current_hash))
                       /\ LAST_TEXT_HASH' = current_text_hash
                  ELSE UNCHANGED <<activity_images, LAST_PHASH, LAST_TEXT_HASH>>
    /\ elapsed' = 0
    /\ UNCHANGED <<propose_result, clock, gc_result, ingestVars, hostVars>>
    /\ UNCHANGED <<config, HEARTBEAT_SECS, activity_count, skipped_stats, last_capture,
                   last_saved_hash>>
    /\ UNCHANGED <<RECORDING, loop_pc, older_loops, loop_interval, event_rx, foreground, poller, burst,
                   last_wake>>
    /\ UNCHANGED <<ocrVars, agentVars, searchVars>>

\* cleanup_old_activities(days, dry_run); failing holds the paths whose remove_file
\* returns an error, which the loop over the rows ignores, and delete_ok is the
\* DELETE statement succeeding
CleanupOldActivities ==
    /\ \E days \in {0, 1}, dry_run, delete_ok \in BOOLEAN :
           LET cutoff_ts == Timestamp(clock) - days
               rows == {i \in DOMAIN activity_images :
                           activity_images[i].timestamp < cutoff_ts}
               paths == {activity_images[i].image_path : i \in rows}
           IN  IF rows = {} \/ dry_run
               THEN /\ gc_result' = [ret |-> "ok", dry_run |-> dry_run,
                                     cutoff_ts |-> cutoff_ts]
                    /\ UNCHANGED <<activity_images, screenshots>>
               ELSE \E failing \in SUBSET paths :
                    /\ screenshots' = screenshots \ (paths \ failing)
                    /\ activity_images' =
                           IF delete_ok
                           THEN SelectSeq(activity_images,
                                          LAMBDA row : ~(row.timestamp < cutoff_ts))
                           ELSE activity_images
                    /\ gc_result' = [ret |-> IF delete_ok THEN "ok" ELSE "err",
                                     dry_run |-> FALSE, cutoff_ts |-> cutoff_ts]
    /\ UNCHANGED <<propose_result, clock, ingestVars, hostVars>>
    /\ UNCHANGED <<ocrVars, agentVars, captureVars, loopVars, searchVars>>

StoreNext ==
    \/ ClockTick
    \/ SaveScreenshot
    \/ CleanupOldActivities

(***************************************************************************)
(* Text path of a capture: src-tauri/src/recorder.rs (capture_and_save,    *)
(* steps 7 to 10: the insert, the new-activity event, the extractor's text *)
(* or the OCR enqueue).  Activity ids are the ids of the OCR queue rows.   *)
(***************************************************************************)
NoIngest == [inserted |-> FALSE, uia |-> None, ocr_text |-> None, ocr_enabled |-> None,
             enqueue |-> "none"]

IngestInit ==
    /\ ingest = [id \in 1..MaxEntries |-> NoIngest]
    /\ ui_events = {}
    /\ ocr_notified = {}

\* the mutated form of EventsAfterInsert: the event is sent before the insert is tried
EventsBeforeInsert(events, id, insert_ok, emit_ok) ==
    IF emit_ok THEN events \cup {<<"new-activity", id>>} ELSE events

\* step 8: app_handle.emit("new-activity", ..) once insert_activity has returned Ok(id)
EventsAfterInsert(events, id, insert_ok, emit_ok) ==
    IF insert_ok /\ emit_ok THEN events \cup {<<"new-activity", id>>} ELSE events

\* the mutated form of SpawnsEnqueue: the task is spawned whatever the extractor gave
SpawnsEnqueueAlways(uia_text, ocr_enabled) == ocr_enabled

\* step 10, the else branch: `if config.ocr_enabled { tokio::spawn(..) }`
SpawnsEnqueue(uia_text, ocr_enabled) == uia_text = None /\ ocr_enabled

\* capture_and_save from the insert of the row to its return, for a frame that has
\* passed the gates and the dedup decision.  insert_ok: insert_activity returned an
\* id; emit_ok: the emits succeed; update_ok: update_activity_ocr returned Ok;
\* ocr_enabled: the option in the config the run reads
IngestFrame ==
    \E id \in DOMAIN ingest, uia \in UiaResults,
       insert_ok, emit_ok, update_ok, ocr_enabled \in BOOLEAN :
        LET uia_text == NormalizeUiaText(uia)
        IN  /\ ~ingest[id].inserted
            /\ \A j \in DOMAIN ingest : j < id => ingest[j].inserted
            /\ IF ~insert_ok
               THEN /\ ui_events' = EventsAfterInsert(ui_events, id, insert_ok, emit_ok)
                    /\ UNCHANGED ingest
               ELSE /\ ingest' = [ingest EXCEPT ![id] =
                          [inserted |-> TRUE,
                           uia |-> uia_text,
                           ocr_text |-> IF uia_text # None /\ update_ok
                                        THEN uia_text ELSE None,
                           ocr_enabled |-> IF uia_text = None
                                           THEN Some(ocr_enabled) ELSE None,
                           enqueue |-> IF SpawnsEnqueue(uia_text, ocr_enabled)
                                       THEN "spawned" ELSE "none"]]
                    /\ ui_events' =
                          LET sent == EventsAfterInsert(ui_events, id, insert_ok, emit_ok)
                          IN  IF uia_text # None /\ update_ok /\ emit_ok
                              THEN sent \cup {<<"ocr-updated", id>>}
                              ELSE sent
            /\ UNCHANGED ocr_notified
            /\ UNCHANGED <<propose_result, clock, activity_images, screenshots, gc_result, hostVars>>
            /\ UNCHANGED <<ocrVars, agentVars, captureVars, loopVars, searchVars>>

\* the task spawned in step 10: enqueue_ocr_task(activity_id), and notify_new_task()
\* where it returned Ok
EnqueueTaskRun ==
    \E id \in DOMAIN ingest, enqueue_ok \in BOOLEAN :
        /\ ingest[id].enqueue = "spawned"
        /\ IF enqueue_ok
           THEN /\ ocr_queue' = EnqueueOcrTaskRow(ocr_queue, id)
                /\ ocr_notified' = ocr_notified \cup {id}
                /\ ingest' = [ingest EXCEPT ![id].enqueue = "done"]
           ELSE /\ ingest' = [ingest EXCEPT ![id].enqueue = "failed"]
                /\ UNCHANGED <<ocr_queue, ocr_notified>>
        /\ ocr_trace' = Record(ocr_trace, ocr_clean, ocr_queue', id)
        /\ UNCHANGED <<ocr_text, worker_pc, join_set, ocr_events, ocr_clean, wake_processed>>
        /\ UNCHANGED ui_events
        /\ UNCHANGED <<propose_result, clock, activity_images, screenshots, gc_result, hostVars>>
        /\ UNCHANGED <<agentVars, captureVars, loopVars, searchVars>>

\* the text path and, behind it, the OCR worker on the entries whose OCR succeeds
IngestNext ==
    \/ IngestFrame
    \/ EnqueueTaskRun
    \/ WorkerWake
    \/ WorkerFetch
    \/ TaskStart
    \/ TaskOcrOk

(***************************************************************************)
(* The recording loop's wakes (src-tauri/src/recorder.rs, win_event.rs).   *)
(* Time is counted in the event loop's polling periods of 100 ms.  These   *)
(* actions follow the loop while CONFIG is still None (init_config runs in *)
(* a task of its own and may fail), where capture_and_save returns at its  *)
(* first statement.                                                        *)
(***************************************************************************)
\* recorder::stop (the stop_recording command)
Stop ==
    /\ RECORDING
    /\ RECORDING' = FALSE
    /\ UNCHANGED <<loop_pc, older_loops, loop_interval, eventVars>>
    /\ UNCHANGED captureVars
    /\ UNCHANGED nonRecorderVars

\* the user brings another window to the front, or none
ForegroundChanges ==
    /\ \E hwnd \in Hwnds : hwnd # foreground /\ foreground' = hwnd
    /\ UNCHANGED <<RECORDING, loop_pc, older_loops, loop_interval, elapsed, event_rx, poller, burst,
                   last_wake>>
    /\ UNCHANGED captureVars
    /\ UNCHANGED nonRecorderVars

\* run_event_loop_internal, one turn of its loop: a foreground window other than the
\* last one seen is sent as ForegroundChanged
Poll ==
    /\ poller.pc = "running"
    /\ ~poller.polled
    /\ IF foreground # poller.last_hwnd /\ foreground # 0
       THEN /\ event_rx' = Append(event_rx, foreground)
            /\ poller' = [poller EXCEPT !.last_hwnd = foreground, !.polled = TRUE]
       ELSE /\ poller' = [poller EXCEPT !.polled = TRUE]
            /\ UNCHANGED event_rx
    /\ UNCHANGED <<RECORDING, loop_pc, older_loops, loop_interval, elapsed, foreground, burst,
                   last_wake>>
    /\ UNCHANGED captureVars
    /\ UNCHANGED nonRecorderVars

\* one polling period goes by; a loop waiting in select! takes an event that is
\* there before that
Tick ==
    /\ loop_pc = "select" => event_rx = <<>>
    /\ poller.pc = "running" => poller.polled
    /\ elapsed' = Min(elapsed + 1, DebounceTicks + 1)
    /\ burst' = [burst EXCEPT !.age = Min(@ + 1, DebounceTicks)]
    /\ poller' = [poller EXCEPT !.polled = FALSE]
    /\ UNCHANGED <<RECORDING, loop_pc, older_loops, loop_interval, event_rx, foreground, last_wake>>
    /\ UNCHANGED captureVars
    /\ UNCHANGED nonRecorderVars

\* history: the burst once an event carrying hwnd is received, captured telling
\* whether a capture attempt is made for it
BurstAfterEvent(b, hwnd, captured) ==
    LET open == b.events > 0 /\ b.age < DebounceTicks
        attempts == IF captured THEN 1 ELSE 0
    IN  IF open
        THEN [b EXCEPT !.events = Min(@ + 1, 2), !.latest = hwnd,
                       !.attempts = Min(@ + attempts, 2),
                       !.attempt_for = IF captured THEN hwnd ELSE @]
        ELSE [events |-> 1, age |-> 0, latest |-> hwnd, attempts |-> attempts,
              attempt_for |-> IF captured THEN hwnd ELSE 0]

\* `last_capture_time.elapsed() > debounce_duration`
DebouncePassed(since) == since > DebounceTicks

\* the end of a turn of the loop: `while RECORDING.load()`, and past the loop
\* event_recorder.stop() and the drop of the receiver
LoopPcAfterTurn == IF RECORDING THEN "select" ELSE "none"

\* recording_loop, select! branch A: an event is received; past the debounce
\* capture_and_save is called, whatever the flag says
LoopEventWake ==
    /\ loop_pc = "select"
    /\ event_rx # <<>>
    /\ LET captured == DebouncePassed(elapsed)
       IN  /\ IF captured
              THEN elapsed' = 0 /\ CaptureConfigErrorRun
              ELSE UNCHANGED elapsed /\ UNCHANGED captureVars
           /\ burst' = BurstAfterEvent(burst, Head(event_rx), captured)
           /\ last_wake' = [cause |-> "event", captured |-> captured,
                            recording |-> RECORDING]
    /\ loop_pc' = LoopPcAfterTurn
    /\ event_rx' = IF RECORDING THEN Tail(event_rx) ELSE <<>>
    /\ poller' = IF RECORDING THEN poller ELSE NoPoller
    /\ UNCHANGED <<RECORDING, older_loops, loop_interval, foreground>>
    /\ UNCHANGED nonRecorderVars

\* recording_loop, select! branch B: the sleep of HEARTBEAT_SECS (10 s at least) ends
\* with no event received meanwhile; capture_and_save is called if the flag is on
LoopHeartbeatWake ==
    /\ loop_pc = "select"
    /\ event_rx = <<>>
    /\ foreground \in {0, poller.last_hwnd}
    /\ IF RECORDING
       THEN elapsed' = 0 /\ CaptureConfigErrorRun
       ELSE elapsed' = DebounceTicks + 1 /\ UNCHANGED captureVars
    /\ burst' = [burst EXCEPT !.age = DebounceTicks]
    /\ last_wake' = [cause |-> "heartbeat", captured |-> RECORDING,
                     recording |-> RECORDING]
    /\ loop_pc' = LoopPcAfterTurn
    /\ poller' = IF RECORDING THEN [poller EXCEPT !.polled = FALSE] ELSE NoPoller
    /\ UNCHANGED <<RECORDING, older_loops, loop_interval, event_rx, foreground>>
    /\ UNCHANGED nonRecorderVars

\* a loop spawned by an earlier start() wakes from its select!, on an event of its own
\* subscription or on its heartbeat, takes its turn (an event wake calls
\* capture_and_save whatever the flag says, a heartbeat wake only with the flag on)
\* and evaluates `while RECORDING.load(...)`: it returns if the flag is off
OlderLoopWake ==
    /\ older_loops > 0
    /\ older_loops' = IF RECORDING THEN older_loops ELSE older_loops - 1
    /\ \E captured \in BOOLEAN :
           /\ RECORDING => captured
           /\ IF captured THEN CaptureConfigErrorRun ELSE UNCHANGED captureVars
    /\ UNCHANGED <<RECORDING, loop_pc, loop_interval, eventVars>>
    /\ UNCHANGED nonRecorderVars

LoopNext ==
    \/ Start
    \/ OlderLoopWake
    \/ LoopPrelude
    \/ Stop
    \/ ForegroundChanges
    \/ Poll
    \/ Tick
    \/ LoopEventWake
    \/ LoopHeartbeatWake

(***************************************************************************)
(* Store initialization and recovery: src-tauri/src/db.rs                  *)
(***************************************************************************)
\* the start-up task of lib.rs, which calls init_db
BootTask == 0

\* the runs of capture_and_save, which call force_recovery
RecoveryCallers == 1..MaxCallers

InitTasks == {BootTask} \cup RecoveryCallers

NoRec == [pc |-> "idle", retry_count |-> 0, attempts |-> 0, has_reset |-> FALSE,
          waited |-> FALSE, found |-> "none", ret |-> "none"]

RecoveryInit ==
    /\ DB_POOL = "none"
    /\ RECOVERY_LOCK = 0
    /\ rec = [t \in InitTasks |-> IF t = BootTask THEN [NoRec EXCEPT !.pc = "connect"]
                                   ELSE NoRec]


\* the mutated form of LockFree: the mutex is taken whoever holds it
LockIgnored(lock) == TRUE

\* RECOVERY_LOCK.lock().await returns once no task holds the mutex
LockFree(lock) == lock = 0

\* the guard of force_recovery is dropped when the call returns
LockAfterReturn(lock, t) == IF lock = t THEN 0 ELSE lock

\* force_recovery's health check: get_pool() is Ok and `SELECT 1` succeeds; the
\* statement reads no page of a table, so on a damaged database it can do either
SelectOneResults(pool) ==
    IF pool = "none" THEN {FALSE}
    ELSE IF pool = "healthy" THEN {TRUE}
    ELSE BOOLEAN

\* init_db, `retry_count += 1; if retry_count >= 3 { return Err(e) }`
InitGivesUp(retry_count) == retry_count + 1 >= InitMaxRetries

\* the database starts to answer writes with a corruption-class error
Corruption ==
    /\ DB_POOL = "healthy"
    /\ DB_POOL' = "corrupt"
    /\ UNCHANGED <<RECOVERY_LOCK, rec>>
    /\ UNCHANGED <<nonHostVars, nonRecoveryVars>>

\* init_db, one turn of its loop: try_connect_and_migrate returns Ok (the pool is
\* stored and init_db returns), a corruption-class error, or another error
InitConnect ==
    \E t \in InitTasks, outcome \in {"ok", "corrupt", "other"} :
        /\ rec[t].pc = "connect"
        /\ rec[t].attempts < MaxAttempts
        /\ IF outcome = "ok"
           THEN /\ DB_POOL' = "healthy"
                /\ rec' = [rec EXCEPT ![t].pc = "returned", ![t].ret = "ok",
                                      ![t].retry_count = 0, ![t].attempts = 0]
                /\ RECOVERY_LOCK' = LockAfterReturn(RECOVERY_LOCK, t)
           ELSE IF outcome = "corrupt"
           THEN /\ rec' = [rec EXCEPT ![t].pc = "init_reset", ![t].attempts = @ + 1]
                /\ UNCHANGED <<DB_POOL, RECOVERY_LOCK>>
           ELSE IF InitGivesUp(rec[t].retry_count)
           THEN /\ rec' = [rec EXCEPT ![t].pc = "returned", ![t].ret = "init_failed",
                                      ![t].retry_count = 0, ![t].attempts = 0]
                /\ RECOVERY_LOCK' = LockAfterReturn(RECOVERY_LOCK, t)
                /\ UNCHANGED DB_POOL
           ELSE /\ rec' = [rec EXCEPT ![t].pc = "sleep", ![t].retry_count = @ + 1,
                                      ![t].attempts = @ + 1]
                /\ UNCHANGED <<DB_POOL, RECOVERY_LOCK>>
        /\ UNCHANGED <<nonHostVars, nonRecoveryVars>>

\* init_db after a corruption-class error: backup_and_reset_db; Ok => `retry_count = 0;
\* continue`, Err => init_db returns the error
InitReset ==
    \E t \in InitTasks, reset_ok \in BOOLEAN :
        /\ rec[t].pc = "init_reset"
        /\ IF reset_ok
           THEN /\ rec' = [rec EXCEPT ![t].pc = "connect", ![t].retry_count = 0,
                                      ![t].has_reset = TRUE]
                /\ UNCHANGED RECOVERY_LOCK
           ELSE /\ rec' = [rec EXCEPT ![t].pc = "returned", ![t].ret = "init_failed",
                                      ![t].retry_count = 0, ![t].attempts = 0]
                /\ RECOVERY_LOCK' = LockAfterReturn(RECOVERY_LOCK, t)
        /\ UNCHANGED DB_POOL
        /\ UNCHANGED <<nonHostVars, nonRecoveryVars>>

\* init_db after another error: the sleep of 500 ms ends, the loop goes round
InitSleep ==
    \E t \in InitTasks :
        /\ rec[t].pc = "sleep"
        /\ rec' = [rec EXCEPT ![t].pc = "connect"]
        /\ UNCHANGED <<DB_POOL, RECOVERY_LOCK>>
        /\ UNCHANGED <<nonHostVars, nonRecoveryVars>>

\* capture_and_save: insert_activity returned a corruption-class error and
\* force_recovery is called; the call waits for the mutex
RequestRecovery ==
    \E t \in RecoveryCallers :
        /\ rec[t].pc = "idle"
        /\ DB_POOL = "corrupt"
        /\ rec' = [rec EXCEPT ![t] = [NoRec EXCEPT !.pc = "wait_lock",
                                                   !.waited = RECOVERY_LOCK # 0]]
        /\ UNCHANGED <<DB_POOL, RECOVERY_LOCK>>
        /\ UNCHANGED <<nonHostVars, nonRecoveryVars>>

\* force_recovery: `let _recovery_guard = RECOVERY_LOCK.lock().await`
AcquireLock ==
    \E t \in RecoveryCallers :
        /\ rec[t].pc = "wait_lock"
        /\ LockFree(RECOVERY_LOCK)
        /\ RECOVERY_LOCK' = t
        /\ rec' = [rec EXCEPT ![t].pc = "check"]
        /\ UNCHANGED DB_POOL
        /\ UNCHANGED <<nonHostVars, nonRecoveryVars>>

\* force_recovery: the health check; a pool that answers `SELECT 1` => return Ok
CheckPool ==
    \E t \in RecoveryCallers, select_ok \in SelectOneResults(DB_POOL) :
        /\ rec[t].pc = "check"
        /\ IF select_ok
           THEN /\ rec' = [rec EXCEPT ![t].pc = "returned", ![t].found = DB_POOL,
                                      ![t].ret = "already_recovered"]
                /\ RECOVERY_LOCK' = LockAfterReturn(RECOVERY_LOCK, t)
           ELSE /\ rec' = [rec EXCEPT ![t].pc = "close", ![t].found = "unusable"]
                /\ UNCHANGED RECOVERY_LOCK
        /\ UNCHANGED DB_POOL
        /\ UNCHANGED <<nonHostVars, nonRecoveryVars>>

\* force_recovery: the pool is taken out of DB_POOL and closed, then the sleep of 500 ms
ClosePool ==
    \E t \in RecoveryCallers :
        /\ rec[t].pc = "close"
        /\ DB_POOL' = "none"
        /\ rec' = [rec EXCEPT ![t].pc = "reset"]
        /\ UNCHANGED RECOVERY_LOCK
        /\ UNCHANGED <<nonHostVars, nonRecoveryVars>>

\* force_recovery: backup_and_reset_db (its error is logged only), then init_db is
\* called
ForceReset ==
    \E t \in RecoveryCallers, reset_ok \in BOOLEAN :
        /\ rec[t].pc = "reset"
        /\ rec' = [rec EXCEPT ![t].pc = "connect", ![t].retry_count = 0,
                              ![t].attempts = 0,
                              ![t].has_reset = reset_ok]
        /\ UNCHANGED <<DB_POOL, RECOVERY_LOCK>>
        /\ UNCHANGED <<nonHostVars, nonRecoveryVars>>

\* the run of capture_and_save that called force_recovery ends; a later run can ask
\* again
CallerReturns ==
    \E t \in RecoveryCallers :
        /\ rec[t].pc = "returned"
        /\ rec' = [rec EXCEPT ![t] = NoRec]
        /\ UNCHANGED <<DB_POOL, RECOVERY_LOCK>>
        /\ UNCHANGED <<nonHostVars, nonRecoveryVars>>

RecoveryNext ==
    \/ Corruption
    \/ InitConnect
    \/ InitReset
    \/ InitSleep
    \/ RequestRecovery
    \/ AcquireLock
    \/ CheckPool
    \/ ClosePool
    \/ ForceReset
    \/ CallerReturns

(***************************************************************************)
(* Writers of CONFIG: recorder.rs, app_config.rs, commands.rs              *)
(***************************************************************************)
NoGate == [pc |-> "idle", local |-> None]

NoUserCmd == [pc |-> "idle", local |-> None, enabled |-> FALSE, until |-> None]

\* the options of AppConfig the model follows
ConfigOptions == {"recording_interval", "privacy_mode_enabled", "privacy_mode_until"}

\* the options set_privacy_mode assigns
PrivacyOptions == {"privacy_mode_enabled", "privacy_mode_until"}

\* init_config, no config.json yet: the default config
DefaultAppConfig == [recording_interval |-> DefaultRecordingInterval,
                     privacy_mode_enabled |-> FALSE,
                     privacy_mode_until |-> None]

PrivacyInit ==
    /\ app_config = DefaultAppConfig
    /\ gate = NoGate
    /\ user_cmd = NoUserCmd
    /\ overlap = None


\* what a user write leaves in the history: the write overlaps the worker's
\* read-modify-write when the worker has read and not yet written
OverlapAfterUserWrite(g, fields, c) ==
    IF g.pc = "write" THEN Some([fields |-> fields, values |-> c]) ELSE None

\* update_config(config.clone()): `*CONFIG.write().await = Some(config.clone())`, the
\* whole config is replaced by the caller's copy
GateWritten(current, local) == local

\* time passes: now > until from here on
DeadlinePasses ==
    /\ app_config.privacy_mode_until = Some("future")
    /\ app_config' = [app_config EXCEPT !.privacy_mode_until = Some("past")]
    /\ UNCHANGED <<gate, user_cmd, overlap>>
    /\ UNCHANGED <<nonHostVars, nonPrivacyVars>>

\* capture_and_save: get_config() returns; with an expired privacy mode the worker's
\* copy is changed and update_config is about to be called (APP_HANDLE.lock().await
\* comes first), otherwise the run writes nothing
GateRead ==
    /\ gate.pc = "idle"
    /\ gate' = IF ConfigAfterPrivacyGate(app_config) # app_config
               THEN [pc |-> "write", local |-> Some(ConfigAfterPrivacyGate(app_config))]
               ELSE NoGate
    /\ overlap' = None
    /\ UNCHANGED <<app_config, user_cmd>>
    /\ UNCHANGED <<nonHostVars, nonPrivacyVars>>

\* capture_and_save: update_config(config.clone(), handle) stores the worker's copy
GateWrite ==
    /\ gate.pc = "write"
    /\ app_config' = GateWritten(app_config, gate.local[1])
    /\ gate' = NoGate
    /\ UNCHANGED <<user_cmd, overlap>>
    /\ UNCHANGED <<nonHostVars, nonPrivacyVars>>

\* the update_config command: the config sent by the front end replaces CONFIG
UserUpdateConfig ==
    \E c \in AppConfigs :
        /\ app_config' = c
        /\ overlap' = OverlapAfterUserWrite(gate, ConfigOptions, c)
        /\ UNCHANGED <<gate, user_cmd>>
        /\ UNCHANGED <<nonHostVars, nonPrivacyVars>>

\* the set_privacy_mode command: get_config() returns
SetPrivacyRead ==
    \E enabled \in BOOLEAN, until \in {None, Some("future"), Some("past")} :
        /\ user_cmd.pc = "idle"
        /\ user_cmd' = [pc |-> "write", local |-> Some(app_config),
                        enabled |-> enabled, until |-> until]
        /\ UNCHANGED <<app_config, gate, overlap>>
        /\ UNCHANGED <<nonHostVars, nonPrivacyVars>>

\* the set_privacy_mode command: the copy with the two options assigned is stored
SetPrivacyWrite ==
    /\ user_cmd.pc = "write"
    /\ app_config' = [user_cmd.local[1] EXCEPT !.privacy_mode_enabled = user_cmd.enabled,
                                               !.privacy_mode_until = user_cmd.until]
    /\ overlap' = OverlapAfterUserWrite(gate, PrivacyOptions, app_config')
    /\ user_cmd' = NoUserCmd
    /\ UNCHANGED gate
    /\ UNCHANGED <<nonHostVars, nonPrivacyVars>>

PrivacyNext ==
    \/ DeadlinePasses
    \/ GateRead
    \/ GateWrite
    \/ UserUpdateConfig
    \/ SetPrivacyRead
    \/ SetPrivacyWrite

(***************************************************************************)
(* Retention scheduler: src-tauri/src/scheduler.rs                         *)
(***************************************************************************)
\* spawn_retention_scheduler has spawned the task, which sleeps 30 s
SchedInit ==
    /\ sched = [pc |-> "sleep", now |-> 0, next_tick |-> 0, ticker |-> FALSE]
    /\ gc_runs = <<>>


\* tokio::time::interval(period): the first tick completes at once, the following
\* ones a period apart counted from the creation of the interval
FirstTickDeadline(now) == now

\* the sleep of 30 s ends
SchedSleepEnds ==
    /\ sched.pc = "sleep"
    /\ sched' = [sched EXCEPT !.pc = "run", !.now = BootDelaySecs]
    /\ UNCHANGED gc_runs
    /\ UNCHANGED <<nonHostVars, nonSchedVars>>

\* run_cleanup: get_config fails (the cleanup is skipped), cleanup_old_activities
\* returns Ok, or it returns an error
CleanupOutcomes == {"no_config", "cleaned", "failed"}

\* run_cleanup().await: called now, returns after some seconds; behind the first call
\* the interval is created, behind the others the loop goes round
SchedRunCleanup ==
    \E took \in 0..MaxCleanupSecs, outcome \in CleanupOutcomes :
        /\ sched.pc = "run"
        /\ Len(gc_runs) < MaxRuns
        /\ gc_runs' = Append(gc_runs, [at |-> sched.now, outcome |-> outcome])
        /\ sched' = [sched EXCEPT !.pc = IF sched.ticker THEN "tick" ELSE "interval",
                                  !.now = @ + took]
        /\ UNCHANGED <<nonHostVars, nonSchedVars>>

\* `let mut ticker = interval(Duration::from_secs(CLEANUP_INTERVAL_SECS))`
SchedMakeTicker ==
    /\ sched.pc = "interval"
    /\ sched' = [sched EXCEPT !.pc = "tick", !.ticker = TRUE,
                              !.next_tick = FirstTickDeadline(sched.now)]
    /\ UNCHANGED gc_runs
    /\ UNCHANGED <<nonHostVars, nonSchedVars>>

\* ticker.tick().await returns at the deadline (at once where it is over already); the
\* next deadline is one period later
SchedTick ==
    /\ sched.pc = "tick"
    /\ sched' = [sched EXCEPT !.pc = "run",
                              !.now = Max(sched.now, sched.next_tick),
                              !.next_tick = @ + CLEANUP_INTERVAL_SECS]
    /\ UNCHANGED gc_runs
    /\ UNCHANGED <<nonHostVars, nonSchedVars>>

SchedNext ==
    \/ SchedSleepEnds
    \/ SchedRunCleanup
    \/ SchedMakeTicker
    \/ SchedTick

(***************************************************************************)
(* Skip counters: memflow-core/src/db.rs, src-tauri/src/db.rs              *)
(***************************************************************************)
\* the reasons followed
StatReasons == {"privacy_mode", "duplicate_frame"}

NoCounts == [r \in StatReasons |-> 0]

StatsInit ==
    /\ SKIPPED_STATS = NoCounts
    /\ recording_stats = NoCounts
    /\ flusher = [pc |-> "none", drained |-> NoCounts, failed |-> FALSE]
    /\ increments_done = NoCounts

HostInit == RecoveryInit /\ PrivacyInit /\ SchedInit /\ StatsInit

\* the mutated form of RestoreDrained: the buffer is replaced by the drained counts
RestoreOverwriting(buf, drained) == drained

\* a failed flush: `for (reason, count) in drained { *buf.entry(reason).or_insert(0)
\* += count }`
RestoreDrained(buf, drained) == [r \in StatReasons |-> buf[r] + drained[r]]

\* INSERT ... ON CONFLICT(date, reason) DO UPDATE SET count = count + excluded.count
Persisted(table, counts) == [r \in StatReasons |-> table[r] + counts[r]]

\* memflow-core increment_skipped_stat(reason): the buffer entry is incremented under
\* the mutex, the flush task is spawned by the first call, Ok is returned
BufferedIncrement ==
    \E r \in StatReasons :
        /\ increments_done[r] < MaxIncrements
        /\ SKIPPED_STATS' = [SKIPPED_STATS EXCEPT ![r] = @ + 1]
        /\ increments_done' = [increments_done EXCEPT ![r] = @ + 1]
        /\ flusher' = IF flusher.pc = "none" THEN [flusher EXCEPT !.pc = "sleep"]
                      ELSE flusher
        /\ UNCHANGED recording_stats
        /\ UNCHANGED <<nonHostVars, nonStatsVars>>

\* src-tauri increment_skipped_stat(reason): one upsert of count + 1; an error of
\* get_pool or of the statement is returned to the caller
DirectIncrement ==
    \E r \in StatReasons, write_ok \in BOOLEAN :
        /\ increments_done[r] < MaxIncrements
        /\ IF write_ok
           THEN /\ recording_stats' = [recording_stats EXCEPT ![r] = @ + 1]
                /\ increments_done' = [increments_done EXCEPT ![r] = @ + 1]
           ELSE UNCHANGED <<recording_stats, increments_done>>
        /\ UNCHANGED <<SKIPPED_STATS, flusher>>
        /\ UNCHANGED <<nonHostVars, nonStatsVars>>

\* the flush task wakes from its sleep of 5 s: an empty buffer => `continue`,
\* otherwise the buffer is taken (std::mem::take) under the mutex
FlushTake ==
    /\ flusher.pc = "sleep"
    /\ SKIPPED_STATS # NoCounts
    /\ flusher' = [flusher EXCEPT !.pc = "write", !.drained = SKIPPED_STATS]
    /\ SKIPPED_STATS' = NoCounts
    /\ UNCHANGED <<recording_stats, increments_done>>
    /\ UNCHANGED <<nonHostVars, nonStatsVars>>

\* the flush task: get_pool and the upsert of the drained counts; when either fails
\* the drained counts are added back to the buffer
FlushWrite ==
    \E outcome \in {"no_pool", "written", "failed"} :
        /\ flusher.pc = "write"
        /\ IF outcome = "written"
           THEN /\ recording_stats' = Persisted(recording_stats, flusher.drained)
                /\ flusher' = [flusher EXCEPT !.pc = "sleep", !.drained = NoCounts]
                /\ UNCHANGED SKIPPED_STATS
           ELSE /\ SKIPPED_STATS' = RestoreDrained(SKIPPED_STATS, flusher.drained)
                /\ flusher' = [pc |-> "sleep", drained |-> NoCounts, failed |-> TRUE]
                /\ UNCHANGED recording_stats
        /\ UNCHANGED increments_done
        /\ UNCHANGED <<nonHostVars, nonStatsVars>>

StatsNext ==
    \/ BufferedIncrement
    \/ DirectIncrement
    \/ FlushTake
    \/ FlushWrite

Init ==
    /\ OcrInit /\ AgentInit /\ CaptureInit /\ LoopInit /\ SearchInit /\ ProposeInit
    /\ StoreInit /\ IngestInit /\ HostInit

SpecOcr == Init /\ [][OcrNext]_vars

\* the OCR worker with its scheduling: the ticker wakes the worker every 5 s, the
\* runtime runs every task that can take a step, and time passes; whether a call to
\* the store succeeds stays open at every step
SpecOcrLive ==
    /\ Init
    /\ [][OcrNext]_vars
    /\ WF_vars(WorkerWake)
    /\ WF_vars(WorkerFetch)
    /\ WF_vars(TaskStart)
    /\ WF_vars(TaskOcrOk \/ TaskOcrErr \/ TaskInvalidPath)
    /\ WF_vars(TimePasses)

SpecAgent == Init /\ [][AgentNext]_vars

SpecCapture == Init /\ [][CaptureNext]_vars

SpecLoop == Init /\ [][LoopNext]_vars

SpecSearch == Init /\ [][SearchNext]_vars

SpecRag == Init /\ [][HybridSearch]_vars

SpecPropose == Init /\ [][InsertActivity \/ ProposeAutomation]_vars

SpecStore == Init /\ [][StoreNext]_vars

SpecRecovery == Init /\ [][RecoveryNext]_vars

SpecPrivacy == Init /\ [][PrivacyNext]_vars

SpecSched == Init /\ [][SchedNext]_vars

SpecStats == Init /\ [][StatsNext]_vars

\* the text path in front of the OCR worker, the histories of the queue rows not kept
TextPathInit ==
    /\ WorkerInit([id \in 1..MaxEntries |-> AbsentEntry], FALSE, FALSE)
    /\ AgentInit /\ CaptureInit /\ LoopInit /\ SearchInit /\ ProposeInit /\ StoreInit
    /\ IngestInit /\ HostInit

SpecIngest == TextPathInit /\ [][IngestNext]_vars

\* the OCR worker with one capture more to come than the semaphore has permits
PermitsInit ==
    /\ WorkerInit([id \in 1..(OcrConcurrency + 1) |-> AbsentEntry], FALSE, FALSE)
    /\ AgentInit /\ CaptureInit /\ LoopInit /\ SearchInit /\ ProposeInit /\ StoreInit
    /\ IngestInit /\ HostInit

SpecPermits == PermitsInit /\ [][OcrNext]_vars

\* rows an earlier session left behind: waiting, finished, or marked 'processing'
\* less than 300 s ago by a task that is gone
BacklogRows ==
    {[status |-> "pending", retry_count |-> InitialRetryCount, fresh |-> FALSE],
     [status |-> "done", retry_count |-> InitialRetryCount, fresh |-> FALSE],
     [status |-> "processing", retry_count |-> InitialRetryCount, fresh |-> TRUE]}

\* a backlog of one row more than one fetch returns: the oldest in any of the states
\* of BacklogRows, the others pending
BacklogInit ==
    /\ \E head \in BacklogRows :
           WorkerInit([id \in 1..(FetchLimit + 1) |->
                          IF id = 1 THEN head
                          ELSE [status |-> "pending",
                                retry_count |-> InitialRetryCount,
                                fresh |-> FALSE]],
                      FALSE, FALSE)
    /\ AgentInit /\ CaptureInit /\ LoopInit /\ SearchInit /\ ProposeInit /\ StoreInit
    /\ IngestInit /\ HostInit

\* the worker on the backlog, up to the start of the jobs of a batch
BacklogNext ==
    \/ TimePasses
    \/ WorkerWake
    \/ WorkerFetch
    \/ TaskStart

SpecBacklog == BacklogInit /\ [][BacklogNext]_vars

\* the worker started over MaxWaiting pending rows (left by an earlier session, or
\* enqueued while OCR was disabled), the entries processed in each wake-up counted
DrainInit ==
    /\ WorkerInit([id \in 1..MaxWaiting |->
                      [status |-> "pending",
                       retry_count |-> InitialRetryCount,
                       fresh |-> FALSE]],
                  FALSE, TRUE)
    /\ AgentInit /\ CaptureInit /\ LoopInit /\ SearchInit /\ ProposeInit /\ StoreInit
    /\ IngestInit /\ HostInit

\* the worker on these rows: wake, fetch and spawn, and the tasks up to their return
DrainNext ==
    \/ WorkerWake
    \/ WorkerFetch
    \/ TaskStart
    \/ TaskOcrOk
    \/ TaskOcrErr

SpecDrain == DrainInit /\ [][DrainNext]_vars

(***************************************************************************)
(* Claims about the capture worker                                         *)
(***************************************************************************)
FrameOutcomes == {"duplicate_frame", "saved", "save_failed"}

\* the number of bit positions at which two hashes differ
BitsDiffering(h1, h2) ==
    Cardinality({p \in 0..(PhashBits - 1) : (p \in h1) # (p \in h2)})

PipelineOutcomes ==
    {"blocklist", "allowlist_miss", "error", "duplicate_frame", "saved", "save_failed"}

C13_HeartbeatWithinConfiguredCeiling ==
    loop_pc = "select" =>
        LET secs == loop_interval[1] \div 1000
            ceiling == IF secs < 10 THEN 10 ELSE IF secs > 60 THEN 60 ELSE secs
        IN  /\ HEARTBEAT_SECS >= 10
            /\ HEARTBEAT_SECS <= 60
            /\ HEARTBEAT_SECS <= ceiling

C31_LastHashesFollowInsert ==
    [][/\ activity_count' = activity_count + 1 =>
              /\ last_capture'.outcome = "saved"
              /\ LAST_PHASH' # None
              /\ parse_phash(LAST_PHASH'[1]) = last_capture'.hash
              /\ LAST_TEXT_HASH' = last_capture'.text_hash
       /\ activity_count' = activity_count =>
              /\ LAST_PHASH' = LAST_PHASH
              /\ LAST_TEXT_HASH' = LAST_TEXT_HASH]_vars

\* after a frame was saved, a run that skipped or failed has left both hashes at the
\* values of the saved frame
C31_Witness ==
    /\ activity_count = 1
    /\ last_capture.outcome \in {"privacy_mode", "blocklist", "allowlist_miss",
                                  "duplicate_frame", "error", "save_failed"}
    /\ LAST_PHASH # None
    /\ parse_phash(LAST_PHASH[1]) = last_saved_hash
    /\ LAST_TEXT_HASH # None

(***************************************************************************)
(* Claims about the text path of a capture                                 *)
(***************************************************************************)
\* C32: a new-activity event for an activity is emitted only after its row has been
\* inserted, and an ocr-updated event for an activity only after its text has been
\* stored (by the recorder from the extractor, or by the OCR worker); no such event is
\* emitted for a row or a text whose write failed
C32_EventsFollowCommittedWrites ==
    /\ \A e \in ui_events :
           /\ e[1] = "new-activity" => ingest[e[2]].inserted
           /\ e[1] = "ocr-updated" =>
                  /\ ingest[e[2]].ocr_text # None
                  /\ ingest[e[2]].ocr_text = ingest[e[2]].uia
    /\ \A id \in ocr_events : ocr_text[id]

\* one activity has got its text and its event from the extractor, another from the
\* OCR worker
C32_Witness ==
    \E a \in DOMAIN ingest, b \in DOMAIN ingest :
        /\ <<"new-activity", a>> \in ui_events
        /\ <<"ocr-updated", a>> \in ui_events
        /\ <<"new-activity", b>> \in ui_events
        /\ <<"ocr-updated", b>> \notin ui_events
        /\ b \in ocr_events

\* C33: after a successful insert: if the extractor returned non-empty text, the
\* activity's text is stored immediately and no OCR task is ever enqueued for that
\* activity; if it returned nothing, an OCR task for the activity is enqueued and the
\* OCR worker is notified if and only if OCR is enabled
C33_TextStoredOrOcrEnqueued ==
    \A id \in DOMAIN ingest :
        (ingest[id].inserted /\ ingest[id].enqueue # "spawned") =>
            IF ingest[id].uia # None
            THEN /\ ingest[id].ocr_text = ingest[id].uia
                 /\ ~Present(ocr_queue, id)
                 /\ id \notin ocr_notified
            ELSE /\ Present(ocr_queue, id) <=> ingest[id].ocr_enabled = Some(TRUE)
                 /\ id \in ocr_notified <=> ingest[id].ocr_enabled = Some(TRUE)

\* C33 with the failing writes named: the extractor's text is stored unless
\* update_activity_ocr fails, and the OCR task is enqueued and the worker notified
\* unless enqueue_ocr_task fails
C33_TextStoredOrOcrEnqueuedUnlessWriteFails ==
    \A id \in DOMAIN ingest :
        ingest[id].inserted =>
            IF ingest[id].uia # None
            THEN /\ ingest[id].ocr_text \in {ingest[id].uia, None}
                 /\ ingest[id].ocr_text = None => <<"ocr-updated", id>> \notin ui_events
                 /\ ingest[id].enqueue = "none"
                 /\ ~Present(ocr_queue, id)
                 /\ id \notin ocr_notified
            ELSE /\ ingest[id].enqueue # "none" <=> ingest[id].ocr_enabled = Some(TRUE)
                 /\ Present(ocr_queue, id) <=> ingest[id].enqueue = "done"
                 /\ id \in ocr_notified <=> ingest[id].enqueue = "done"
                 /\ ingest[id].ocr_text = None

\* one activity has the extractor's text and no queue row, a second had no text and
\* is enqueued with the worker notified, OCR being enabled
C33_Witness ==
    \E a \in DOMAIN ingest, b \in DOMAIN ingest :
        /\ ingest[a].inserted
        /\ ingest[a].uia # None
        /\ ingest[a].ocr_text = ingest[a].uia
        /\ ~Present(ocr_queue, a)
        /\ ingest[b].inserted
        /\ ingest[b].uia = None
        /\ ingest[b].ocr_enabled = Some(TRUE)
        /\ Present(ocr_queue, b)
        /\ b \in ocr_notified

(***************************************************************************)
(* Claims about the recording loop                                         *)
(***************************************************************************)

\* C15: once the 500 ms window that began with the first event of a burst is over, a
\* burst of two or more events has led to exactly one capture attempt, and that
\* attempt was made for the burst's latest event.
C15_BurstYieldsOneCaptureForLatest ==
    (burst.events >= 2 /\ burst.age = DebounceTicks) =>
        /\ burst.attempts = 1
        /\ burst.attempt_for = burst.latest

\* C16: a wake of the loop that finds the recording flag off calls no
\* capture_and_save, whether an event or the heartbeat caused it, and ends the loop
\* and the event subscription.
C16_NoCaptureOnceStopped ==
    (last_wake.cause # "none" /\ ~last_wake.recording) =>
        /\ ~last_wake.captured
        /\ loop_pc = "none"
        /\ poller.pc = "none"

\* C26: capture is a single task: under any interleaving of start() and stop() calls
\* at most one recording loop is alive at a time (so no two capture_and_save runs
\* overlap and LAST_PHASH / LAST_TEXT_HASH are used by one loop only)
C26_AtMostOneLoopAlive ==
    (IF loop_pc = "none" THEN 0 ELSE 1) + older_loops <= 1

(***************************************************************************)
(* Claims about the OCR queue                                              *)
(***************************************************************************)

\* C2: no queue entry's retry-count ever exceeds 3, because every failed attempt
\* (OCR error or failure to store the text) on an entry whose retry-count is >= 3
\* marks the entry failed instead of putting it back to pending.
C2_RetryCountNeverExceedsThree ==
    \A id \in EntryIds : ocr_queue[id].retry_count <= DeadLetterThreshold

\* C3: a queue row's retry-count grows by exactly 1 on every step that takes the row
\* from processing to pending, and is left alone by every other step (updates to
\* processing, done or failed included).
C3_RetryCountOnlyOnRequeue ==
    [][\A id \in EntryIds :
          Present(ocr_queue, id) =>
              IF ocr_queue[id].status = "processing" /\ ocr_queue'[id].status = "pending"
              THEN ocr_queue'[id].retry_count = ocr_queue[id].retry_count + 1
              ELSE ocr_queue'[id].retry_count = ocr_queue[id].retry_count]_vars

\* C3 witness: one entry was re-queued once and another reached a final status
C3_Witness ==
    \E id, other \in EntryIds :
        /\ ocr_queue[id].status = "pending" /\ ocr_queue[id].retry_count = 1
        /\ ocr_queue[other].status \in {"done", "failed"}

DeadLetterTrace ==
    << <<"pending", 0>>, <<"processing", 0>>,
       <<"pending", 1>>, <<"processing", 1>>,
       <<"pending", 2>>, <<"processing", 2>>,
       <<"pending", 3>>, <<"processing", 3>>,
       <<"failed", 3>> >>

IsPrefix(s, t) == Len(s) <= Len(t) /\ \A i \in 1..Len(s) : s[i] = t[i]

\* C4: the row of an entry whose every attempt ends in an OCR error goes through
\* pending(0), processing, pending(1), processing, pending(2), processing,
\* pending(3), processing, failed, in this order: three re-queues, then dead-letter.
C4_RetryThenDeadLetter ==
    \A id \in EntryIds :
        (Present(ocr_queue, id) /\ ocr_clean[id]) =>
            /\ IsPrefix(ocr_trace[id], DeadLetterTrace)
            /\ ocr_trace[id] # <<>>
            /\ ocr_trace[id][Len(ocr_trace[id])] =
                   <<ocr_queue[id].status, ocr_queue[id].retry_count>>

\* C4 witness: an entry that only ever met OCR errors has been dead-lettered
C4_Witness ==
    \E id \in EntryIds :
        /\ ocr_clean[id]
        /\ ocr_queue[id].status = "failed"
        /\ ocr_trace[id] = DeadLetterTrace

\* C17: at every moment at most two OCR jobs are in progress, a job being in progress from
\* the moment its task has marked the row 'processing' until the task has made its final
\* status update, however many entries are pending and however often the worker is woken
C17_AtMostTwoJobsInProgress ==
    Cardinality({id \in DOMAIN join_set : join_set[id].pc = "running"}) <= 2

\* two jobs are in progress while a third task of the same batch waits for a permit
C17_Witness ==
    /\ Cardinality({id \in DOMAIN join_set : join_set[id].pc = "running"}) = 2
    /\ \E id \in DOMAIN join_set :
           /\ join_set[id].pc = "spawned"
           /\ ocr_queue[id].status = "pending"

\* C18 (as amended): a batch is fetched only when no task of an earlier batch is left, and
\* it consists of the oldest entries that are eligible (pending, or processing and stale)
\* at the moment of the fetch, all of them or the FetchLimit oldest
C18_BatchIsOldestEligibleAtFetch ==
    [][(\E id \in DOMAIN join_set :
            join_set[id].pc = "none" /\ join_set'[id].pc = "spawned") =>
       LET batch == {id \in DOMAIN join_set : join_set'[id].pc = "spawned"}
           elig == {id \in DOMAIN ocr_queue :
                       \/ ocr_queue[id].status = "pending"
                       \/ (ocr_queue[id].status = "processing" /\ ~ocr_queue[id].fresh)}
       IN  /\ \A id \in DOMAIN join_set : join_set[id].pc = "none"
           /\ batch \subseteq elig
           /\ \A id \in batch : \A j \in elig \ batch : id < j
           /\ (elig \ batch # {} => Cardinality(batch) = 10)]_vars

\* a full batch of ten is in flight, a job of it has started, and a pending entry
\* younger than all of the batch was left for the next fetch
C18_Witness ==
    LET batch == {id \in DOMAIN join_set : join_set[id].pc # "none"}
    IN  /\ Cardinality(batch) = 10
        /\ \E id \in batch : join_set[id].pc = "running"
        /\ \E j \in DOMAIN ocr_queue \ batch :
               /\ ocr_queue[j].status = "pending"
               /\ \A id \in batch : id < j

\* C18 (as stated): no job starts processing while an older eligible entry is left
\* unfetched. Checked where the ten tasks of a full batch are all still in the JoinSet,
\* so that every entry without a task is one the fetch left behind
C18_NoStartWhileOlderEligibleUnfetched ==
    [][\A id \in DOMAIN join_set :
          (/\ join_set[id].pc = "spawned"
           /\ join_set'[id].pc = "running"
           /\ Cardinality({k \in DOMAIN join_set : join_set[k].pc # "none"}) = 10) =>
              \A j \in 1..(id - 1) :
                  (\/ ocr_queue[j].status = "pending"
                   \/ (ocr_queue[j].status = "processing" /\ ~ocr_queue[j].fresh)) =>
                      join_set[j].pc # "none"]_vars

\* C27: with OCR enabled and the worker running, every enqueued queue entry eventually
\* reaches done or failed (none stays pending or processing forever), and the worker's
\* drain loop for one wake-up always terminates, even when status or text updates to
\* the store fail
C27_EveryEntryFinishesAndDrainEnds ==
    /\ \A id \in 1..MaxEntries :
           (ocr_queue[id].status \in {"pending", "processing"})
               ~> (ocr_queue[id].status \in {"done", "failed"})
    /\ (worker_pc = "draining") ~> (worker_pc = "waiting")

\* C28: a poll of the queue returns only entries that are pending, or processing with
\* an updated_at more than 5 minutes in the past; done and failed entries are never
\* returned again, and a processing entry updated less than 5 minutes ago is never
\* returned
C28_PollReturnsOnlyPendingOrStale ==
    [][\A id \in DOMAIN join_set :
          (join_set[id].pc = "none" /\ join_set'[id].pc = "spawned") =>
              /\ ocr_queue[id].status \notin {"done", "failed", "absent"}
              /\ ocr_queue[id].status = "processing" => ~ocr_queue[id].fresh]_vars

\* a poll has returned an entry left 'processing' more than 5 minutes ago and has not
\* returned the finished entry beside it
C28_Witness ==
    \E id \in DOMAIN join_set, j \in DOMAIN join_set :
        /\ join_set[id].pc = "spawned"
        /\ ocr_queue[id].status = "processing"
        /\ ~ocr_queue[id].fresh
        /\ join_set[j].pc = "none"
        /\ ocr_queue[j].status \in {"done", "failed"}

\* C30: the work of the OCR worker per wake-up is bounded by the fetch size: on each
\* tick or notification it fetches and processes at most 10 queue entries before it
\* waits for the next tick or notification
C30_AtMostFetchLimitPerWake ==
    wake_processed # <<>> => wake_processed[1] <= FetchLimit

\* C29: no queue entry is being processed by two worker tasks at the same time: a task
\* is spawned for an entry only when no task spawned for it earlier is still alive,
\* within a batch, across the batches of one wake-up, and when its row has become
\* eligible again under the 5-minute stale-reclaim rule
C29_NoSecondTaskForAnEntry ==
    [][\A id \in DOMAIN join_set :
          (join_set[id].pc # "spawned" /\ join_set'[id].pc = "spawned") =>
              join_set[id].pc = "none"]_vars

\* a task is at work on an entry whose row has turned 5 minutes old, so that a poll
\* would return it, while the worker is in its drain loop
C29_Witness ==
    \E id \in DOMAIN join_set :
        /\ worker_pc = "draining"
        /\ join_set[id].pc = "running"
        /\ ocr_queue[id].status = "processing"
        /\ ~ocr_queue[id].fresh
        /\ id \in GetPendingOcrTasks(ocr_queue, FetchLimit)

(***************************************************************************)
(* Claims about search                                                     *)
(***************************************************************************)
\* C19: a search that returns (items, total) returns as total the number of activity rows
\* that match its query, app, time-range and has-ocr filters, whatever limit and offset
\* are, and never more items than total
C19_TotalIsMatchCount ==
    (search_result.impl # "none" /\ search_result.ok) =>
        /\ search_result.total = search_result.matching
        /\ search_result.items <= search_result.total

\* C20: whatever the query and the requested limit L, hybrid search returns at most L
\* results, each activity id at most once, in non-increasing order of the final
\* (time-decayed) score
C20_HybridResultsBoundedDistinctSorted ==
    LET r == rag_result.results
    IN  /\ Len(r) <= rag_result.limit
        /\ \A i, j \in DOMAIN r :
               i < j => (r[i].id # r[j].id /\ r[i].score >= r[j].score)

\* a call that had scores for three activities and returned L = 2 of them, of
\* different scores, the better first
C20_Witness ==
    /\ rag_result.limit = 2
    /\ rag_result.found = 3
    /\ Len(rag_result.results) = 2
    /\ rag_result.results[1].score > rag_result.results[2].score

\* C21: time decay is monotonic: of two results with the same fused (pre-decay) score
\* and timestamps >= 0, the one with the older timestamp never has the higher final
\* score, whatever the value of now
C21_DecayMonotonicInTimestamp ==
    \A i, j \in DOMAIN rag_result.results :
        LET a == rag_result.results[i]
            b == rag_result.results[j]
        IN  (a.fused = b.fused /\ a.timestamp < b.timestamp) => a.score <= b.score

(***************************************************************************)
(* Claims about screenshots and retention                                  *)
(***************************************************************************)
\* C23: retention GC (dry-run = false) destroys an activity together with its image:
\* after it returns, every activity row older than the threshold has been deleted and
\* so has its image file, and no image file has been deleted whose activity row is
\* still in the store
C23_GcDeletesRowAndImageTogether ==
    [][(gc_result' # gc_result /\ gc_result'.ret = "ok" /\ ~gc_result'.dry_run) =>
          /\ \A i \in DOMAIN activity_images' :
                 ~(activity_images'[i].timestamp < gc_result'.cutoff_ts)
          /\ \A i \in DOMAIN activity_images :
                 activity_images[i].timestamp < gc_result'.cutoff_ts =>
                     activity_images[i].image_path \notin screenshots'
          /\ \A f \in screenshots \ screenshots' :
                 \A i \in DOMAIN activity_images' : activity_images'[i].image_path # f
      ]_vars

\* C24: after any sequence of captures, no two activity rows have the same image
\* filename, so no capture overwrites the image file owned by an existing row
C24_ImageFilenameUnique ==
    \A i, j \in DOMAIN activity_images :
        i # j => activity_images[i].image_path # activity_images[j].image_path

(***************************************************************************)
(* Claims about agent propose                                              *)
(***************************************************************************)
\* C22 (as stated): whenever the LLM analysis is disabled, fails, times out or yields no
\* tasks, propose returns exactly one proposal, the rule-based fallback (titled with the
\* time window, risk low, a single create_note step), whatever the activity log
\* contains in the time window
C22_FallbackWhateverTheLog ==
    (propose_result.ret = "ok" /\ propose_result.llm \in {"error", "timeout", "empty"}) =>
        /\ Len(propose_result.proposals) = 1
        /\ propose_result.proposals[1].title.text = "rule summary"
        /\ propose_result.proposals[1].risk_level = "low"
        /\ propose_result.proposals[1].steps = <<"create_note">>

\* C22 (amended): a propose call that returns Ok while the LLM analysis is disabled,
\* fails, times out or yields no tasks returns exactly one proposal, the rule-based
\* fallback titled with the window in use (the parameter, 24 when absent, brought into
\* 1..720), risk low, a single create_note step, if at least one activity row lies in
\* the time window, and no proposal at all if none does
C22_FallbackWhenWindowHasRows ==
    (propose_result.ret = "ok" /\ propose_result.llm \in {"error", "timeout", "empty"}) =>
        IF propose_result.rows = 0 THEN propose_result.proposals = <<>>
        ELSE /\ Len(propose_result.proposals) = 1
             /\ propose_result.proposals[1].title =
                    [text |-> "rule summary",
                     hours |-> CASE propose_result.hours = None -> 24
                                 [] propose_result.hours = Some(0) -> 1
                                 [] propose_result.hours = Some(1000) -> 720
                                 [] OTHER -> propose_result.hours[1]]
             /\ propose_result.proposals[1].risk_level = "low"
             /\ propose_result.proposals[1].steps = <<"create_note">>

\* a call with rows in the window whose analysis returned no task, and that returned
\* the fallback titled with the smallest window
C22_Witness ==
    /\ propose_result.ret = "ok"
    /\ propose_result.llm = "empty"
    /\ propose_result.rows > 0
    /\ propose_result.hours = Some(0)
    /\ Len(propose_result.proposals) = 1
    /\ propose_result.proposals[1].title.hours = 1

(***************************************************************************)
(* Claims about the agent execution engine                                 *)
(***************************************************************************)
TerminalStatuses == {"success", "failed", "cancelled"}

C6_CancelStopsAtK ==
    \A e \in ExecIds :
        (cancel_info[e].seen /\ cancel_info[e].completed < cancel_info[e].total) =>
            /\ steps_started[e] = cancel_info[e].started
            /\ agent_executions[e].status \in TerminalStatuses =>
                  /\ agent_executions[e].status = "cancelled"
                  /\ agent_executions[e].metadata.steps_success = cancel_info[e].completed
                  /\ agent_executions[e].metadata.steps_total = cancel_info[e].total
                  /\ agent_executions[e].finished_at = "set"

\* C6, amended: the flag set by cancel_execution is read at the head of each step only.
\* After the call no further step is started.  The row written at the end has
\* finished_at set and steps_total = n, and: when the call came between two steps
\* (k < n completed) it is cancelled with steps_success = k; when it came while step
\* k+1 was running, that step runs to its end and the row is cancelled with
\* steps_success = k+1 (k+1 < n), success (k+1 = n) or failed with steps_success = k;
\* when it came after a step had failed, the row is failed with steps_success = k.
C6_CancelAtStepBoundary ==
    \A e \in ExecIds :
        (cancel_info[e].seen /\ cancel_info[e].completed < cancel_info[e].total) =>
            /\ steps_started[e] = cancel_info[e].started
            /\ agent_executions[e].status \in TerminalStatuses =>
                  LET row == agent_executions[e]
                      k == cancel_info[e].completed
                      n == cancel_info[e].total
                  IN  /\ row.finished_at = "set"
                      /\ row.metadata.steps_total = n
                      /\ cancel_info[e].pc = "check" =>
                            row.status = "cancelled" /\ row.metadata.steps_success = k
                      /\ cancel_info[e].pc = "step" =>
                            \/ row.status = "cancelled" /\ row.metadata.steps_success = k + 1
                                                        /\ k + 1 < n
                            \/ row.status = "success" /\ row.metadata.steps_success = k + 1
                                                      /\ k + 1 = n
                            \/ row.status = "failed" /\ row.metadata.steps_success = k
                      /\ cancel_info[e].pc = "cleanup" =>
                            row.status = "failed" /\ row.metadata.steps_success = k

\* a cancel made between two steps, after one step of two, has ended in a cancelled row
C6_Witness ==
    \E e \in ExecIds :
        /\ cancel_info[e].seen
        /\ cancel_info[e].pc = "check"
        /\ cancel_info[e].completed = 1
        /\ cancel_info[e].total = 2
        /\ agent_executions[e].status = "cancelled"
        /\ agent_executions[e].metadata.steps_success = 1

\* C25 (as stated): if cancel_execution(id) is called and returns while the row of
\* execution id still has status running, that execution never ends with status
\* success
C25_CancelWhileRunningNeverSuccess ==
    \A e \in ExecIds :
        cancel_info[e].seen => agent_executions[e].status # "success"

\* C25 (amended): if cancel_execution(id) sets the flag while the row is running and
\* at least one step of the execution has not been started yet, the execution never
\* ends with status success: the row written at the end is cancelled, or failed when
\* the step that was in progress at the call (or an earlier one) failed
C25_CancelBeforeLastStepNeverSuccess ==
    \A e \in ExecIds :
        (cancel_info[e].seen /\ cancel_info[e].started < cancel_info[e].total) =>
            /\ agent_executions[e].status \in {"running", "cancelled", "failed"}
            /\ agent_executions[e].status = "failed" =>
                   cancel_info[e].pc \in {"step", "cleanup"}

\* a cancel made while the first step of two was running has ended in a cancelled row
C25_Witness ==
    \E e \in ExecIds :
        /\ cancel_info[e].seen
        /\ cancel_info[e].pc = "step"
        /\ cancel_info[e].started = 1
        /\ cancel_info[e].total = 2
        /\ agent_executions[e].status = "cancelled"

\* C34: after any sequence of execute and cancel operations the cancel-flag map holds
\* an entry for an execution id only while that execution is running: a terminated
\* execution (success, failed, cancelled) has none, and the map never holds more
\* entries than there are running executions
C34_FlagsOnlyForRunningExecutions ==
    /\ \A e \in ExecIds :
           EXECUTION_CANCEL_FLAGS[e] # "absent" =>
               /\ agent_executions[e].status = "running"
               /\ bg[e].pc \in {"check", "step", "cleanup"}
    /\ Cardinality({e \in ExecIds : EXECUTION_CANCEL_FLAGS[e] # "absent"})
           <= Cardinality({e \in ExecIds : agent_executions[e].status = "running"})

\* an execution whose flag had been set by a cancel has terminated, and its entry is
\* gone from the map
C34_Witness ==
    \E e \in ExecIds :
        /\ cancel_info[e].seen
        /\ agent_executions[e].status \in {"success", "failed", "cancelled"}
        /\ EXECUTION_CANCEL_FLAGS[e] = "absent"

\* the step loop of the background executor: the steps that have run are the first
\* steps of the list, in list order and each once; only the last of them can have
\* failed; the count of successes is the number of steps completed before it
StepsInOrderUntilFirstFailure ==
    \A e \in ExecIds :
        /\ \A k \in 1..Len(step_log[e]) :
               /\ step_log[e][k].index = k
               /\ k < Len(step_log[e]) => step_log[e][k].ok
        /\ bg[e].pc \in {"check", "step", "cleanup", "audit"} =>
               /\ Len(step_log[e]) <= bg[e].steps_total
               /\ bg[e].steps_success = Cardinality({k \in 1..Len(step_log[e]) : step_log[e][k].ok})
               /\ bg[e].steps_success <= bg[e].steps_total
               /\ bg[e].result = "failed" <=>
                      (Len(step_log[e]) > 0 /\ ~step_log[e][Len(step_log[e])].ok)

\* C35: the background executor runs the steps in list order, each at most once, and
\* stops at the first step that fails: no step after a failed step is executed, the
\* final status is failed, and steps_success is the number of steps completed before
\* it, which is at most steps_total
C35_FirstFailedStepEndsAsFailed ==
    /\ []StepsInOrderUntilFirstFailure
    /\ [][\A e \in ExecIds :
             (/\ bg[e].pc = "audit"
              /\ bg'[e].pc = "done"
              /\ Len(step_log[e]) > 0
              /\ ~step_log[e][Len(step_log[e])].ok) =>
                 /\ agent_executions'[e].status = "failed"
                 /\ agent_executions'[e].metadata.steps_success = Len(step_log[e]) - 1
                 /\ agent_executions'[e].metadata.steps_success
                        <= agent_executions'[e].metadata.steps_total]_vars

\* C7: execute_automation on a proposal whose risk_level is not low returns
\* AGENT_RISK_BLOCKED and changes nothing: no row, no cancel flag, no step.
C7_RiskBlockedNoEffect ==
    [][(last_call'.op = "execute" /\ last_call'.risk_level # "low") =>
          /\ last_call'.ret = "AGENT_RISK_BLOCKED"
          /\ UNCHANGED <<agent_executions, EXECUTION_CANCEL_FLAGS, bg, steps_started>>]_vars

\* a medium-risk proposal was turned away while an execution was running
C7_Witness ==
    /\ last_call.op = "execute"
    /\ last_call.risk_level = "medium"
    /\ last_call.ret = "AGENT_RISK_BLOCKED"
    /\ \E e \in ExecIds : agent_executions[e].status = "running"

\* C8 as stated: execute_automation on a proposal with a blank step field, or with
\* steps that do not deserialize, returns AGENT_STEP_NOT_ALLOWED and changes nothing.
C8_BlankStepNotAllowed ==
    [][(last_call'.op = "execute" /\ (last_call'.blank_field \/ ~last_call'.json_ok)) =>
          /\ last_call'.ret = "AGENT_STEP_NOT_ALLOWED"
          /\ UNCHANGED <<agent_executions, EXECUTION_CANCEL_FLAGS, bg, steps_started>>]_vars

\* C8, amended: execute_automation on a proposal with a blank step field, or with steps
\* that do not deserialize, changes nothing (no row, no flag, no step, whatever the
\* position of the blank step); it returns AGENT_STEP_NOT_ALLOWED when the proposal's
\* risk_level is low, and AGENT_RISK_BLOCKED otherwise.
C8_BlankStepRejected ==
    [][(last_call'.op = "execute" /\ (last_call'.blank_field \/ ~last_call'.json_ok)) =>
          /\ last_call'.ret = IF last_call'.risk_level = "low"
                              THEN "AGENT_STEP_NOT_ALLOWED"
                              ELSE "AGENT_RISK_BLOCKED"
          /\ UNCHANGED <<agent_executions, EXECUTION_CANCEL_FLAGS, bg, steps_started>>]_vars

\* a low-risk proposal with a blank step field behind a valid step was turned away
C8_Witness ==
    /\ last_call.op = "execute"
    /\ last_call.risk_level = "low"
    /\ last_call.json_ok
    /\ last_call.blank_after_valid
    /\ last_call.ret = "AGENT_STEP_NOT_ALLOWED"

\* C9: once the background task of an execution has ended, the execution's row is
\* success, failed or cancelled with finished_at set (no row stays running).
C9_EndedTaskLeavesTerminalRow ==
    \A e \in ExecIds :
        bg[e].pc = "done" =>
            /\ agent_executions[e].status \in TerminalStatuses
            /\ agent_executions[e].finished_at = "set"

\* C10: cancel_execution on an execution that has finished, or on an id that was never
\* registered, returns success and changes neither a row nor the cancel-flag map.
C10_CancelFinishedIsNoOp ==
    [][\A id \in ExecIds :
          (/\ last_call'.op = "cancel"
           /\ last_call'.id = id
           /\ \/ agent_executions[id].status \in {"absent"} \cup TerminalStatuses
              \/ bg[id].pc \in {"audit", "done"}) =>
              /\ last_call'.ret = "ok"
              /\ agent_executions' = agent_executions
              /\ EXECUTION_CANCEL_FLAGS' = EXECUTION_CANCEL_FLAGS]_vars

\* a cancel_execution call has acted on an execution that had ended in success
C10_Witness ==
    \E e \in ExecIds :
        /\ agent_executions[e].status = "success"
        /\ bg[e].pc = "done"
        /\ last_call.op = "cancel"
        /\ last_call.id = e

(***************************************************************************)
(* Claims about store initialization and recovery                          *)
(***************************************************************************)
\* C36: store initialization ends after a bounded number of attempts: an init call
\* that has not returned yet has attempted connect-and-migrate at most 3 times, also
\* when corruption-class errors keep coming back after a recovery
C36_InitAttemptsAtMostThree ==
    \A t \in InitTasks : rec[t].attempts <= InitMaxRetries

\* a task is inside a recovery: between closing the pool and the return of init_db, or
\* inside the init_db call of start-up
Recovering(t) == rec[t].pc \in {"close", "reset", "connect", "init_reset", "sleep"}

\* C37: at most one database recovery (close pool, remove the files, re-initialize) is
\* in progress at any time; a task that finds the pool healthy once it has the lock
\* returns without resetting the database again
C37_OneRecoveryAtATime ==
    /\ Cardinality({t \in InitTasks : Recovering(t)}) <= 1
    /\ \A t \in RecoveryCallers :
           /\ Recovering(t) => RECOVERY_LOCK = t
           /\ rec[t].found = "healthy" =>
                  /\ rec[t].pc = "returned"
                  /\ rec[t].ret = "already_recovered"
                  /\ ~rec[t].has_reset

\* a task asked for a recovery while another one held the lock, found the pool healthy
\* when its turn came and has returned; the other one had reset the database
C37_Witness ==
    \E t, u \in RecoveryCallers :
        /\ t # u
        /\ rec[t].waited
        /\ rec[t].found = "healthy"
        /\ rec[t].pc = "returned"
        /\ ~rec[t].has_reset
        /\ rec[u].pc = "returned"
        /\ rec[u].ret = "ok"
        /\ rec[u].has_reset

(***************************************************************************)
(* Claims about the writers of CONFIG                                      *)
(***************************************************************************)
\* C38: the capture worker's automatic privacy-mode disable never overwrites a
\* configuration change made concurrently through update_config or set_privacy_mode:
\* once both have completed, every option the user wrote still has the user's value
C38_AutoDisableKeepsUserWrites ==
    (gate.pc = "idle" /\ user_cmd.pc = "idle" /\ overlap # None) =>
        \A f \in overlap[1].fields : app_config[f] = overlap[1].values[f]

(***************************************************************************)
(* Claims about the retention scheduler                                    *)
(***************************************************************************)
\* C39: once the scheduler is started, retention GC runs once 30 s after the start and
\* from then on once every 24 h: any two consecutive GC runs are 24 h apart
C39_ConsecutiveRunsADayApart ==
    /\ Len(gc_runs) > 0 => gc_runs[1].at = BootDelaySecs
    /\ \A k \in 1..(Len(gc_runs) - 1) :
           gc_runs[k + 1].at - gc_runs[k].at = CLEANUP_INTERVAL_SECS

(***************************************************************************)
(* Claims about the skip counters                                          *)
(***************************************************************************)
\* C40 as stated: for every reason, the count persisted in recording_stats plus the
\* count held in the in-memory buffer always equals the number of completed increment
\* calls
C40_PersistedPlusBufferIsCompleted ==
    \A r \in StatReasons :
        recording_stats[r] + SKIPPED_STATS[r] = increments_done[r]

\* C40: for every reason, the count persisted plus the count in the buffer plus the
\* count the flush task has taken and not yet written or put back equals the number
\* of completed increment calls; while no flush is under way the first two add up to
\* it: no increment is lost or counted twice
C40_PersistedBufferedOrInFlightIsCompleted ==
    /\ \A r \in StatReasons :
           recording_stats[r] + SKIPPED_STATS[r] + flusher.drained[r] = increments_done[r]
    /\ flusher.pc # "write" => flusher.drained = NoCounts

\* a flush has failed, a later one has written, and increments made meanwhile are in
\* the buffer
C40_Witness ==
    \E r \in StatReasons :
        /\ flusher.failed
        /\ flusher.pc = "sleep"
        /\ recording_stats[r] > 0
        /\ SKIPPED_STATS[r] > 0
        /\ increments_done[r] = MaxIncrements

=============================================================================
